---- MODULE Spec2Model ----
(***************************************************************************)
(* The PSUR schedule record store (src/backend/db_store.py,                *)
(* PSURDatabaseStore over the SQLite table psur_reports) as a state        *)
(* machine, and the server around it (src/backend/server.py): the /tool    *)
(* dispatcher and the websocket subscribers it broadcasts to.              *)
(*                                                                         *)
(* Strings are sequences of ASCII codes, so that SQLite's BINARY ordering  *)
(* (ORDER BY td_number), LIKE's ASCII case folding and Python's            *)
(* str.lower()/substring test are computed as the code computes them.      *)
(* Column values are tagged records: NULL/None, a plain string, or a       *)
(* string spelling the date with ordinal d in ISO (%Y-%m-%d) or US         *)
(* (%m/%d/%Y) form.  Dates are proleptic Gregorian ordinals                *)
(* (date.toordinal()).                                                     *)
(***************************************************************************)
EXTENDS Integers, Sequences, FiniteSets, TLC

VARIABLES
    rows,       \* table psur_reports: sequence of rows in rowid order
    next_id,    \* sqlite_sequence: the AUTOINCREMENT counter of psur_reports
    clock,      \* the wall clock read by datetime.now(): ticks with every call
    keeps_lock, \* the interpreter's sqlite3 module: TRUE when a SELECT that was not
                \* read to its end keeps its read lock after conn.close() until the
                \* cursor is dropped (CPython 3.11 on), FALSE when close() resets it
    prev,       \* table contents when the last call started
    last,       \* the last call: its name, arguments and return value
    connected_clients,  \* server.py: the set of websockets subscribed to updates
    sockets,    \* every websocket: the state of its connection, the messages
                \* written to it, in order, and how its websocket_endpoint stands
    tasks,      \* every request to /tool: where its tool_entry coroutine stands
    published,  \* the calls of broadcast_update, in call order: the message, the
                \* subscribers at the time of the call, the websockets whose
                \* send_json raised, whether the call has ended, and whether
                \* it ended by raising
    conversation_history,  \* server.py: the dialog entries kept for the display,
                \* oldest first
    backend,    \* the Convex deployment ConvexStore posts to: "up", or "down" when
                \* the request fails or times out (httpx raises)
    threads     \* the callers that share the database file from threads of their
                \* own: the call each is in, the statement it has reached, what it
                \* holds in local variables, and the calls it has completed

server_vars == <<connected_clients, sockets, tasks, published, conversation_history,
                 backend>>
vars == <<rows, next_id, clock, keeps_lock, prev, last, server_vars, threads>>

----------------------------------------------------------------------------
(* Bounds of the model *)

\* calls made after construction
MaxSteps == 2
\* requests posted to /tool
MaxRequests == 2
\* websockets that connect to /ws
MaxClients == 2
\* callers sharing the database file, and the calls each of them makes
MaxThreads == 2
MaxCalls == 2
\* messages broadcast over a run of the dialog endpoints
MaxEvents == 102

----------------------------------------------------------------------------
(* Program constants *)

DUE_OFFSET_DAYS == 30
\* date.max = 9999-12-31
DateMax == 3652059
\* datetime.now().date(): 2025-01-01
Today == 739252
\* Optional[date]: None
NoDate == -1
\* Optional[int]: None (within_days)
NoDays == -1
\* get_stats: thirty = today + timedelta(days=30)
DUE_SOON_DAYS == 30
\* add_dialog_entry: "Keep only last 100 entries"
HistoryLimit == 100

----------------------------------------------------------------------------
(* Values *)

NoneVal == [k |-> "none", d |-> 0, s |-> <<>>]
Str(s) == [k |-> "str", d |-> 0, s |-> s]
Iso(d) == [k |-> "iso", d |-> d, s |-> <<>>]
Us(d) == [k |-> "us", d |-> d, s |-> <<>>]

\* Python truthiness of a column value: None and "" are falsy
Truthy(v) == v.k \in {"iso", "us"} \/ (v.k = "str" /\ v.s # <<>>)

\* (value or ""): the characters of a plain string, "" for None
TextOf(v) == IF v.k = "str" THEN v.s ELSE <<>>

\* str.lower() on one ASCII code
LowerChar(c) == IF c >= 65 /\ c <= 90 THEN c + 32 ELSE c
Lower(s) == [i \in 1..Len(s) |-> LowerChar(s[i])]

\* Python `a in b` for strings
Contains(b, a) ==
    \E i \in 0..(Len(b) - Len(a)) : \A j \in 1..Len(a) : b[i + j] = a[j]

\* bytewise (BINARY collation / Python str) strict order
RECURSIVE StrLess(_, _)
StrLess(a, b) ==
    IF b = <<>> THEN FALSE
    ELSE IF a = <<>> THEN TRUE
    ELSE IF Head(a) # Head(b) THEN Head(a) < Head(b)
    ELSE StrLess(Tail(a), Tail(b))

----------------------------------------------------------------------------
(* Dates *)

\* _parse_date: the three strptime formats, then fromisoformat; None otherwise
_parse_date(value) ==
    IF ~Truthy(value) THEN NoDate
    ELSE IF value.k \in {"iso", "us"} THEN value.d
    ELSE NoDate

_format_date(value) == IF value # NoDate THEN Iso(value) ELSE Str(<<>>)

_compute_due(end_period) ==
    LET end == _parse_date(end_period)
    IN  IF end = NoDate THEN NoDate ELSE end + DUE_OFFSET_DAYS

\* ScheduleRecord.ensure_due
ensure_due(data) == [data EXCEPT !.due_date = _format_date(_compute_due(data.end_period))]

----------------------------------------------------------------------------
(* Row post-processing *)

\* the rows of a table carrying td_number, in rowid order
RowsOf(db, td_number) == SelectSeq(db, LAMBDA r : r.td_number = td_number)

\* _write_due writing version = 1 instead of version + 1
_write_due_resets_version(db, td_number, due_iso, t) ==
    [i \in 1..Len(db) |->
        IF db[i].td_number = td_number
        THEN [db[i] EXCEPT !.due_date = due_iso, !.updated_at = t, !.version = 1]
        ELSE db[i]]

\* UPDATE psur_reports SET due_date = ?, updated_at = ?, version = version + 1
\*   WHERE td_number = ?
_write_due(db, td_number, due_iso, t) ==
    [i \in 1..Len(db) |->
        IF db[i].td_number = td_number
        THEN [db[i] EXCEPT !.due_date = due_iso, !.updated_at = t, !.version = @ + 1]
        ELSE db[i]]

\* the test of _row_to_record: the corrected due date is written back
WritesDue(row, persist) ==
    LET original_due == row.due_date
        computed_due == ensure_due(row).due_date
    IN  persist /\ Truthy(computed_due) /\ original_due # computed_due

\* _row_to_record: the table after the row fetched earlier as `row` was post-processed
\* (the returned record is ensure_due(row))
_row_to_record(db, row, persist, t) ==
    IF WritesDue(row, persist)
    THEN _write_due(db, row.td_number, ensure_due(row).due_date, t)
    ELSE db

\* [self._row_to_record(row, persist=persist) for row in fetched]: the table after
\* the fetched rows i..Len(fetched) were post-processed in order
RECURSIVE PostProcess(_, _, _, _, _)
PostProcess(db, fetched, i, persist, t) ==
    IF i > Len(fetched) THEN db
    ELSE PostProcess(_row_to_record(db, fetched[i], persist, t), fetched, i + 1, persist, t)

Records(fetched) == [i \in 1..Len(fetched) |-> ensure_due(fetched[i])]

----------------------------------------------------------------------------
(* Reads: each yields the table afterwards (db), the value returned (ret) and *)
(* whether the call raised instead of returning (raised)                     *)

\* SELECT * FROM psur_reports WHERE td_number = ? ; fetchone(): SQLite walks
\* idx_td_number, so the row with the lowest rowid comes first.  The cursor is
\* still alive while _row_to_record runs: when further rows match, the SELECT is
\* unfinished, and under keeps_lock its read lock makes the commit of _write_due
\* fail with sqlite3.OperationalError (database is locked), which propagates.
find_by_td(db, td_number, persist, t) ==
    LET fetched == RowsOf(db, td_number)
    IN  IF fetched = <<>> THEN [db |-> db, ret |-> <<>>, raised |-> FALSE]
        ELSE IF WritesDue(fetched[1], persist) /\ Len(fetched) > 1 /\ keeps_lock
        THEN [db |-> db, ret |-> <<>>, raised |-> TRUE]
        ELSE [db |-> _row_to_record(db, fetched[1], persist, t),
              ret |-> <<ensure_due(fetched[1])>>, raised |-> FALSE]

\* SELECT * FROM psur_reports WHERE td_number = ? ORDER BY id
find_all_by_td(db, td_number, persist, t) ==
    LET fetched == RowsOf(db, td_number)
    IN  [db |-> PostProcess(db, fetched, 1, persist, t), ret |-> Records(fetched),
         raised |-> FALSE]

\* ORDER BY td_number, scanned through idx_td_number: (td_number, rowid) order
OrderByTd(db) ==
    LET Before(a, b) == StrLess(a.td_number, b.td_number)
                        \/ (a.td_number = b.td_number /\ a.id < b.id)
        S == {db[i] : i \in 1..Len(db)}
    IN  [i \in 1..Len(db) |-> CHOOSE r \in S : Cardinality({q \in S : Before(q, r)}) = i - 1]

\* SELECT * FROM psur_reports ORDER BY td_number
get_all(db, persist, t) ==
    LET fetched == OrderByTd(db)
    IN  [db |-> PostProcess(db, fetched, 1, persist, t), ret |-> Records(fetched),
         raised |-> FALSE]

_refresh_due(db, td_number, t) == find_by_td(db, td_number, TRUE, t)

----------------------------------------------------------------------------
(* Writes *)

ImmutableKeys == {"id", "created_at", "updated_at", "version", "td_number"}

\* update_record: `updates` is a function from column names to values
update_record(db, td_number, updates, t) ==
    LET allowed == DOMAIN updates \ ImmutableKeys
        Apply(r) == [f \in DOMAIN r |->
                        IF f = "updated_at" THEN t
                        ELSE IF f = "version" THEN r.version + 1
                        ELSE IF f \in allowed THEN updates[f]
                        ELSE r[f]]
        updated == [i \in 1..Len(db) |->
                        IF db[i].td_number = td_number THEN Apply(db[i]) ELSE db[i]]
        affected == Len(RowsOf(db, td_number))
        refreshed == _refresh_due(updated, td_number, t)
    IN  IF DOMAIN updates = {} THEN [db |-> db, ret |-> FALSE, raised |-> FALSE]
        ELSE IF allowed = {} THEN [db |-> db, ret |-> FALSE, raised |-> FALSE]
        ELSE IF affected > 0
             THEN [db |-> refreshed.db, ret |-> ~refreshed.raised, raised |-> refreshed.raised]
             ELSE [db |-> updated, ret |-> FALSE, raised |-> FALSE]

\* Python int(text): decimal digits only here; -1 stands for ValueError
RECURSIVE ParseInt(_)
ParseInt(s) ==
    IF s = <<>> THEN -1
    ELSE LET c == s[Len(s)]
             init == SubSeq(s, 1, Len(s) - 1)
         IN  IF c < 48 \/ c > 57 THEN -1
             ELSE IF init = <<>> THEN c - 48
             ELSE IF ParseInt(init) = -1 THEN -1
             ELSE ParseInt(init) * 10 + (c - 48)

RECURSIVE Decimal(_)
Decimal(n) == IF n < 10 THEN <<48 + n>> ELSE Decimal(n \div 10) \o <<48 + (n % 10)>>

\* f"TD{num:03d}"
FormatTd(num) ==
    LET digits == Decimal(num)
        pad == [i \in 1..(3 - Len(digits)) |-> 48]
    IN  <<84, 68>> \o pad \o digits

\* td_number LIKE 'TD%': LIKE folds ASCII case
LikeTd(s) == Len(s) >= 2 /\ LowerChar(s[1]) = 116 /\ LowerChar(s[2]) = 100

\* the identifier add_record assigns when the record carries none:
\* SELECT td_number ... WHERE td_number LIKE 'TD%' ORDER BY td_number DESC LIMIT 1
NextTdNumber(db) ==
    LET matching == {db[i].td_number : i \in {j \in 1..Len(db) : LikeTd(db[j].td_number)}}
        top == CHOOSE x \in matching : \A y \in matching : y = x \/ StrLess(y, x)
        parsed == ParseInt(SubSeq(top, 3, Len(top)))
        num == IF matching = {} THEN 1
               ELSE IF parsed = -1 THEN 1
               ELSE parsed + 1
    IN  FormatTd(num)

\* add_record as INSERT OR REPLACE under the former td_number UNIQUE constraint
add_record_replacing(db, id, record, t) ==
    LET td_number == IF record.td_number = <<>> THEN FormatTd(Len(db) + 1)
                     ELSE record.td_number
        row == [id |-> id,
                td_number |-> td_number,
                writer |-> record.writer,
                end_period |-> record.end_period,
                due_date |-> _format_date(_compute_due(record.end_period)),
                status |-> record.status,
                class |-> record.class,
                comments |-> record.comments,
                created_at |-> t,
                updated_at |-> t,
                version |-> 1]
    IN  [db |-> Append(SelectSeq(db, LAMBDA r : r.td_number # td_number), row),
         ret |-> td_number, raised |-> FALSE]

\* add_record: `record` carries td_number (<<>> when absent), end_period, writer,
\* class, status and comments; id comes from AUTOINCREMENT, created_at/updated_at/version from
\* the column defaults
add_record(db, id, record, t) ==
    LET td_number == IF record.td_number = <<>> THEN NextTdNumber(db) ELSE record.td_number
        due == _compute_due(record.end_period)
        row == [id |-> id,
                td_number |-> td_number,
                writer |-> record.writer,
                end_period |-> record.end_period,
                due_date |-> _format_date(due),
                status |-> record.status,
                class |-> record.class,
                comments |-> record.comments,
                created_at |-> t,
                updated_at |-> t,
                version |-> 1]
    IN  [db |-> Append(db, row), ret |-> td_number, raised |-> FALSE]

\* delete_record removing the first matching row only
delete_record_first_row(db, td_number) ==
    LET fetched == RowsOf(db, td_number)
    IN  [db |-> IF fetched = <<>> THEN db
                ELSE SelectSeq(db, LAMBDA r : r.id # fetched[1].id),
         ret |-> fetched # <<>>,
         raised |-> FALSE]

\* DELETE FROM psur_reports WHERE td_number = ?
delete_record(db, td_number) ==
    [db |-> SelectSeq(db, LAMBDA r : r.td_number # td_number),
     ret |-> Len(RowsOf(db, td_number)) > 0,
     raised |-> FALSE]

\* import_from_excel: DELETE FROM psur_reports, then one INSERT per sheet row
\* (canon_record gives every mapped column a string); ids continue from `id`
import_from_excel(id, sheet, t) ==
    [i \in 1..Len(sheet) |->
        [id |-> id + i - 1,
         td_number |-> sheet[i].td_number,
         writer |-> sheet[i].writer,
         end_period |-> sheet[i].end_period,
         due_date |-> _format_date(_compute_due(sheet[i].end_period)),
         status |-> sheet[i].status,
         class |-> sheet[i].class,
         comments |-> sheet[i].comments,
         created_at |-> t,
         updated_at |-> t,
         version |-> 1]]

\* import_from_excel committing after every statement (a connection in autocommit
\* mode): a failure at row `failure` leaves the rows inserted before it
convert_from_excel_autocommit(db, id, sheet, failure, t) ==
    LET inserted == import_from_excel(id, sheet, t)
    IN  IF failure = 0 THEN [db |-> db, next_id |-> id, ret |-> 0, raised |-> TRUE]
        ELSE IF failure <= Len(sheet)
        THEN [db |-> SubSeq(inserted, 1, failure - 1), next_id |-> id + failure - 1,
              ret |-> 0, raised |-> TRUE]
        ELSE [db |-> inserted, next_id |-> id + Len(sheet), ret |-> Len(sheet),
              raised |-> FALSE]

\* convert_from_excel = import_from_excel on a store that holds rows: the source
\* is read (read_excel_auto), and then one connection runs DELETE FROM
\* psur_reports and one INSERT per sheet row in one transaction, committed after
\* the loop.  failure = 0: reading raises, before any statement ran;
\* failure in 1..Len(sheet): canon_record or the INSERT of that row raises, the
\* connection is dropped uncommitted and SQLite rolls the transaction back, the
\* AUTOINCREMENT sequence included; failure > Len(sheet): nothing raises.
convert_from_excel(db, id, sheet, failure, t) ==
    LET inserted == import_from_excel(id, sheet, t)
    IN  IF failure = 0 THEN [db |-> db, next_id |-> id, ret |-> 0, raised |-> TRUE]
        ELSE IF failure <= Len(sheet)
        THEN [db |-> db, next_id |-> id, ret |-> 0, raised |-> TRUE]
        ELSE [db |-> inserted, next_id |-> id + Len(sheet), ret |-> Len(sheet),
              raised |-> FALSE]

----------------------------------------------------------------------------
(* Filter / projection *)

\* the keyword arguments of filter_records
Filter(writer, classification, status, within_days, overdue_only) ==
    [writer |-> writer, classification |-> classification, status |-> status,
     within_days |-> within_days, overdue_only |-> overdue_only]

\* key=lambda r: (_parse_date(r.get("due_date")) or date.max, r.get("td_number", "")),
\* with `missing` the date that stands for no due date
SortKeyDue(r, missing) ==
    IF _parse_date(r.due_date) = NoDate THEN missing ELSE _parse_date(r.due_date)

SortKeyLess(a, b, missing) ==
    SortKeyDue(a, missing) < SortKeyDue(b, missing)
    \/ (SortKeyDue(a, missing) = SortKeyDue(b, missing) /\ StrLess(a.td_number, b.td_number))

\* results.sort(key=...): Python's sort is stable
StableSort(items, missing) ==
    LET Before(q, p) == SortKeyLess(items[q], items[p], missing)
                        \/ (~SortKeyLess(items[p], items[q], missing) /\ q < p)
        P == 1..Len(items)
    IN  [i \in P |-> items[CHOOSE p \in P : Cardinality({q \in P : Before(q, p)}) = i - 1]]

\* the body of filter_records' loop: TRUE when the record is appended to results
Selected(record, f) ==
    LET due == _parse_date(record.due_date)
        today == Today
        window_end == today + f.within_days
        Miss(criterion, value) ==
            Truthy(criterion) /\ ~Contains(Lower(TextOf(value)), Lower(TextOf(criterion)))
    IN  /\ ~Miss(f.writer, record.writer)
        /\ ~Miss(f.classification, record.class)
        /\ ~Miss(f.status, record.status)
        /\ ~(f.overdue_only /\ (due = NoDate \/ due >= today))
        /\ ~(f.within_days # NoDays /\ (due = NoDate \/ due < today \/ due > window_end))

filter_records(db, f, t) ==
    LET all == get_all(db, TRUE, t)
        results == SelectSeq(all.ret, LAMBDA record : Selected(record, f))
    IN  [db |-> all.db, ret |-> StableSort(results, DateMax), raised |-> FALSE]

----------------------------------------------------------------------------
(* ConvexStore (src/backend/db_convex.py), the store the server is wired to *)

\* the arguments ConvexStore.filter_records sends to the query psur:filter
ConvexFilterArgs(f) ==
    LET keys == {k \in {"writer", "classification", "status", "overdue", "dueBefore"} :
                    \/ k = "writer" /\ Truthy(f.writer)
                    \/ k = "classification" /\ Truthy(f.classification)
                    \/ k = "status" /\ Truthy(f.status)
                    \/ k = "overdue" /\ f.overdue_only
                    \/ k = "dueBefore" /\ f.within_days # NoDays /\ f.within_days # 0}
    IN  [k \in keys |->
            IF k = "writer" THEN f.writer
            ELSE IF k = "classification" THEN f.classification
            ELSE IF k = "status" THEN f.status
            ELSE IF k = "overdue" THEN TRUE
            ELSE Iso(Today + f.within_days)]

\* the Convex query psur:filter, which is not among the Python sources: the
\* filter contract of the record store, applied to the arguments it is sent,
\* records without due date after every dated one
psur_filter(db, args) ==
    LET Has(k) == k \in DOMAIN args
        Match(k, value) == Has(k) => Contains(Lower(TextOf(value)), Lower(TextOf(args[k])))
        Keep(record) ==
            LET due == _parse_date(record.due_date)
            IN  /\ Match("writer", record.writer)
                /\ Match("classification", record.class)
                /\ Match("status", record.status)
                /\ Has("overdue") => (due # NoDate /\ due < Today)
                /\ Has("dueBefore") =>
                        (due # NoDate /\ Today <= due /\ due <= _parse_date(args["dueBefore"]))
    IN  StableSort(SelectSeq(Records(db), Keep), DateMax + 1)

\* ConvexStore.filter_records
convex_filter_records(db, f) ==
    [db |-> db, ret |-> psur_filter(db, ConvexFilterArgs(f)), raised |-> FALSE]

----------------------------------------------------------------------------
(* Higher-level utilities *)

\* f"[{datetime.now().strftime('%Y-%m-%d %H:%M')}] {comment}"
Stamped(comment, t) == <<91>> \o Decimal(t) \o <<93, 32>> \o comment

\* add_comment writing the stamped comment over the existing comments
add_comment_overwrites(db, td_number, comment, t) ==
    LET record == find_by_td(db, td_number, FALSE, t).ret
    IN  IF record = <<>> THEN [db |-> db, ret |-> FALSE, raised |-> FALSE]
        ELSE update_record(db, td_number, [comments |-> Str(Stamped(comment, t))], t)

add_comment(db, td_number, comment, t) ==
    LET record == find_by_td(db, td_number, FALSE, t).ret
        existing == TextOf(record[1].comments)
        combined == IF existing # <<>> THEN existing \o <<10>> \o Stamped(comment, t)
                    ELSE Stamped(comment, t)
    IN  IF record = <<>> THEN [db |-> db, ret |-> FALSE, raised |-> FALSE]
        ELSE update_record(db, td_number, [comments |-> Str(combined)], t)

\* the loop of bulk_update_status over records i..Len(records)
RECURSIVE BulkLoop(_, _, _, _, _, _)
BulkLoop(db, records, i, new_status, count, t) ==
    IF i > Len(records) THEN [db |-> db, ret |-> count, raised |-> FALSE]
    ELSE LET u == update_record(db, records[i].td_number, [status |-> new_status], t)
         IN  IF u.raised THEN [db |-> u.db, ret |-> count, raised |-> TRUE]
             ELSE BulkLoop(u.db, records, i + 1, new_status,
                           IF u.ret THEN count + 1 ELSE count, t)

\* dict.get(key, default)
Get(d, key, default) == IF key \in DOMAIN d THEN d[key] ELSE default

\* bulk_update_status: `filters` is the caller's dict; the classification
\* criterion is read under the key "class"
bulk_update_status(db, filters, new_status, t) ==
    LET found == filter_records(db,
                    Filter(Get(filters, "writer", NoneVal),
                           Get(filters, "class", NoneVal),
                           Get(filters, "status", NoneVal),
                           Get(filters, "within_days", NoDays),
                           Get(filters, "overdue_only", FALSE)), t)
    IN  BulkLoop(found.db, found.ret, 1, new_status, 0, t)

\* str.strip(): whitespace is space, \t, \n, \v, \f, \r
IsSpace(c) == c = 32 \/ (9 <= c /\ c <= 13)

RECURSIVE LStrip(_)
LStrip(s) == IF s # <<>> /\ IsSpace(Head(s)) THEN LStrip(Tail(s)) ELSE s

RECURSIVE RStrip(_)
RStrip(s) == IF s # <<>> /\ IsSpace(s[Len(s)]) THEN RStrip(SubSeq(s, 1, Len(s) - 1)) ELSE s

Strip(s) == RStrip(LStrip(s))

\* the columns whose values are integers: id INTEGER PRIMARY KEY, version INTEGER
IntegerFields == {"id", "version"}

\* record.get(field) or "": the timestamps are ISO texts, never blank
TextOrEmpty(record, field) ==
    IF field \notin DOMAIN record THEN <<>>
    ELSE IF field \in {"created_at", "updated_at"} THEN <<84>>
    ELSE IF field = "td_number" THEN record[field]
    ELSE TextOf(record[field])

\* find_missing_fields: (record.get(field) or "").strip() raises AttributeError
\* on a non-zero integer
find_missing_fields(db, fields, t) ==
    LET all == get_all(db, TRUE, t)
        F == 1..Len(fields)
        missing(record) == SelectSeq(fields, LAMBDA field : Strip(TextOrEmpty(record, field)) = <<>>)
        hits == SelectSeq(all.ret, LAMBDA record : missing(record) # <<>>)
    IN  IF all.ret # <<>> /\ \E j \in F : fields[j] \in IntegerFields
        THEN [db |-> all.db, ret |-> <<>>, raised |-> TRUE]
        ELSE [db |-> all.db,
              ret |-> [i \in 1..Len(hits) |->
                          [record |-> hits[i], missing_fields |-> missing(hits[i])]],
              raised |-> FALSE]

\* find_duplicate_td_numbers returning the identifiers in the order of their
\* first rows instead of ORDER BY td_number
find_duplicate_td_numbers_by_rowid(db) ==
    LET shared == SelectSeq(db, LAMBDA r : Len(RowsOf(db, r.td_number)) > 1)
        firsts == SelectSeq(shared, LAMBDA r : r.id = RowsOf(db, r.td_number)[1].id)
    IN  [db |-> db, ret |-> [i \in 1..Len(firsts) |-> firsts[i].td_number],
         raised |-> FALSE]

\* SELECT td_number FROM psur_reports WHERE td_number IS NOT NULL
\*   GROUP BY td_number HAVING COUNT(*) > 1 ORDER BY td_number
find_duplicate_td_numbers(db) ==
    LET groups == {db[i].td_number : i \in 1..Len(db)}
        having == {td_number \in groups : Len(RowsOf(db, td_number)) > 1}
    IN  [db |-> db,
         ret |-> [i \in 1..Cardinality(having) |->
                    CHOOSE td_number \in having :
                        Cardinality({other \in having : StrLess(other, td_number)}) = i - 1],
         raised |-> FALSE]

\* "Unknown", "Unassigned"
Unknown == <<85, 110, 107, 110, 111, 119, 110>>
Unassigned == <<85, 110, 97, 115, 115, 105, 103, 110, 101, 100>>

\* get_stats: the tallies over get_all(), then the duplicated identifiers
get_stats(db, t) ==
    LET all == get_all(db, TRUE, t)
        records == all.ret
        R == 1..Len(records)
        Key(record, field, default) ==
            IF Strip(TextOf(record[field])) = <<>> THEN default
            ELSE Strip(TextOf(record[field]))
        Tally(field, default) ==
            [key \in {Key(records[i], field, default) : i \in R} |->
                Cardinality({i \in R : Key(records[i], field, default) = key})]
        due(i) == _parse_date(records[i].due_date)
    IN  [db |-> all.db,
         ret |-> [total_records |-> Len(records),
                  by_status |-> Tally("status", Unknown),
                  by_class |-> Tally("class", Unknown),
                  by_writer |-> Tally("writer", Unassigned),
                  overdue |-> Cardinality({i \in R : due(i) # NoDate /\ due(i) < Today}),
                  due_soon |-> Cardinality({i \in R : due(i) # NoDate /\ Today <= due(i)
                                                        /\ due(i) <= Today + DUE_SOON_DAYS}),
                  duplicate_td_numbers |-> find_duplicate_td_numbers(all.db).ret],
         raised |-> all.raised]

----------------------------------------------------------------------------
(* Export helpers: each yields the table afterwards and, as ret, what it wrote *)

\* the keyword arguments filter_records declares
FilterKeywords == {"writer", "classification", "status", "within_days", "overdue_only"}

\* export_csv: csv.DictWriter.writerows(records), one line per record in order
export_csv(db, filter_criteria, t) ==
    LET found == filter_records(db,
                    Filter(Get(filter_criteria, "writer", NoneVal),
                           Get(filter_criteria, "class", NoneVal),
                           Get(filter_criteria, "status", NoneVal),
                           Get(filter_criteria, "within_days", NoDays),
                           Get(filter_criteria, "overdue_only", FALSE)), t)
    IN  [db |-> found.db, ret |-> [records |-> found.ret], raised |-> found.raised]

\* export_calendar: one VEVENT per record in order, dated by the record's due
\* date or by today, described by the record (json.dumps)
export_calendar(db, filter_criteria, within_days, t) ==
    LET found == filter_records(db,
                    Filter(Get(filter_criteria, "writer", NoneVal),
                           Get(filter_criteria, "class", NoneVal),
                           Get(filter_criteria, "status", NoneVal),
                           within_days,
                           FALSE), t)
        Event(record) ==
            [uid |-> record.td_number,
             dtstart |-> IF _parse_date(record.due_date) = NoDate THEN Today
                         ELSE _parse_date(record.due_date),
             description |-> record]
        events == [i \in 1..Len(found.ret) |-> Event(found.ret[i])]
    IN  [db |-> found.db,
         ret |-> [records |-> [i \in 1..Len(events) |-> events[i].description],
                  events |-> events],
         raised |-> found.raised]

\* export_excel as the export_excel tool calls it: the records of
\* filter_records(**filter_criteria) when a filter is given (TypeError for a key
\* that is no keyword of filter_records), else every record as get_all gives them;
\* pd.DataFrame(records).to_excel writes one line per record in order
export_excel(db, filter_criteria, t) ==
    LET found == filter_records(db,
                    Filter(Get(filter_criteria, "writer", NoneVal),
                           Get(filter_criteria, "classification", NoneVal),
                           Get(filter_criteria, "status", NoneVal),
                           Get(filter_criteria, "within_days", NoDays),
                           Get(filter_criteria, "overdue_only", FALSE)), t)
        all == get_all(db, TRUE, t)
    IN  IF DOMAIN filter_criteria = {}
        THEN [db |-> all.db, ret |-> [records |-> all.ret], raised |-> all.raised]
        ELSE IF ~(DOMAIN filter_criteria \subseteq FilterKeywords)
        THEN [db |-> db, ret |-> <<>>, raised |-> TRUE]
        ELSE [db |-> found.db, ret |-> [records |-> found.ret], raised |-> found.raised]

----------------------------------------------------------------------------
(* Inputs *)

\* "TD001", "TDX", "X1"
TD001 == <<84, 68, 48, 48, 49>>
TDX == <<84, 68, 88>>
X1 == <<88, 49>>
TdInputs == {TD001, TDX, X1}

\* "Al", "Released", "Draft", "IIa", "III", "n/a", "note"
Al == Str(<<65, 108>>)
Released == Str(<<82, 101, 108, 101, 97, 115, 101, 100>>)
Draft == Str(<<68, 114, 97, 102, 116>>)
ClassIIa == Str(<<73, 73, 97>>)
ClassIII == Str(<<73, 73, 73>>)
Junk == Str(<<110, 47, 97>>)
Note == <<110, 111, 116, 101>>

\* period ends whose due dates are yesterday, today and tomorrow
EndYesterday == Today - DUE_OFFSET_DAYS - 1
EndToday == Today - DUE_OFFSET_DAYS
EndTomorrow == Today - DUE_OFFSET_DAYS + 1

SheetRow(td_number, end_period, writer, class, status) ==
    [td_number |-> td_number, end_period |-> end_period, writer |-> writer,
     class |-> class, status |-> status, comments |-> Str(<<>>)]

\* spreadsheets found at construction
Sheets ==
    { <<>>,
      <<SheetRow(TD001, Iso(EndYesterday), Al, ClassIIa, Draft)>>,
      <<SheetRow(TD001, Iso(EndYesterday), Al, ClassIIa, Draft),
        SheetRow(TD001, Iso(EndTomorrow), Str(<<>>), ClassIII, Draft)>>,
      <<SheetRow(TDX, Str(<<>>), Al, ClassIII, Released),
        SheetRow(TD001, Iso(EndToday), Al, ClassIIa, Draft)>>,
      <<SheetRow(X1, Iso(EndToday), Str(<<>>), ClassIIa, Draft),
        SheetRow(X1, Iso(EndToday), Al, ClassIII, Released)>> }

\* records handed to add_record
AddInputs ==
    { [td_number |-> td, end_period |-> e, writer |-> NoneVal, class |-> NoneVal,
       status |-> Draft, comments |-> NoneVal] :
        td \in {<<>>, TD001, TDX}, e \in {Junk, Iso(EndYesterday), Us(EndTomorrow)} }

\* field maps handed to update_record
UpdateInputs ==
    { <<>>,
      [status |-> Released],
      [end_period |-> Iso(EndTomorrow)],
      [end_period |-> Junk],
      [due_date |-> Iso(Today)],
      [status |-> Released, version |-> 99],
      [version |-> 99],
      [td_number |-> TDX, created_at |-> 99, end_period |-> Us(EndToday)] }

NoFilter == Filter(NoneVal, NoneVal, NoneVal, NoDays, FALSE)

\* filters used beside the writes
FewFilters == {NoFilter, Filter(NoneVal, ClassIII, NoneVal, NoDays, FALSE)}

\* filter dicts handed to bulk_update_status
SomeBulkFilters == {<<>>, [class |-> ClassIII]}
BulkFilters == SomeBulkFilters \cup {[classification |-> ClassIII], [status |-> Draft]}

\* " "
Blank == Str(<<32>>)

\* field lists handed to find_missing_fields: "writer"; "status", "writer";
\* "Writer" (no such column); "version"
FieldLists == {<<"writer">>, <<"status", "writer">>, <<"Writer">>, <<"version">>}

\* spreadsheets found at construction, for the utilities
ToolSheets ==
    { <<SheetRow(TD001, Iso(EndYesterday), Al, ClassIIa, Draft),
        SheetRow(TD001, Iso(EndTomorrow), Blank, ClassIII, Draft),
        SheetRow(X1, Iso(EndToday), Al, ClassIII, Draft)>>,
      <<SheetRow(TDX, Str(<<>>), Str(<<>>), ClassIII, Str(<<>>)),
        SheetRow(TD001, Iso(EndToday), Al, ClassIIa, Draft),
        SheetRow(X1, Iso(EndToday), Al, ClassIII, Released)>> }

\* "AL", "ii", "rel"
AllFilters ==
    { Filter(w, c, st, n, o) :
        w \in {NoneVal, Str(<<65, 76>>)},
        c \in {NoneVal, Str(<<105, 105>>)},
        st \in {NoneVal, Str(<<>>), Str(<<114, 101, 108>>)},
        n \in {NoDays, 0, 1},
        o \in BOOLEAN }

\* a period end whose due date is date.max
EndMax == DateMax - DUE_OFFSET_DAYS

\* spreadsheets found at construction, for the filter
FilterSheets ==
    { <<SheetRow(TD001, Iso(EndYesterday), Al, ClassIIa, Draft),
        SheetRow(TDX, Iso(EndToday), Str(<<>>), ClassIII, Released),
        SheetRow(X1, Iso(EndTomorrow), Al, ClassIII, Draft)>>,
      <<SheetRow(TDX, Iso(EndMax), Al, ClassIII, Released),
        SheetRow(TD001, Str(<<>>), Al, ClassIIa, Draft)>>,
      <<SheetRow(TDX, Iso(EndToday), Al, ClassIIa, Released),
        SheetRow(TD001, Iso(EndToday), Str(<<>>), ClassIII, Draft),
        SheetRow(TD001, Str(<<>>), Al, ClassIIa, Released)>> }

----------------------------------------------------------------------------
(* The store as a state machine *)

\* the store used on its own, by one caller: no server around it
NoServer ==
    /\ connected_clients = {}
    /\ sockets = <<>>
    /\ tasks = <<>>
    /\ published = <<>>
    /\ conversation_history = <<>>
    /\ backend = "up"
    /\ threads = <<>>

\* PSURDatabaseStore(): init_database imports the spreadsheet into the empty table
Init ==
    \E sheet \in Sheets :
        /\ rows = import_from_excel(1, sheet, 0)
        /\ next_id = Len(sheet) + 1
        /\ clock = 0
        /\ keeps_lock \in BOOLEAN
        /\ prev = <<>>
        /\ last = [op |-> "init", td |-> <<>>, arg |-> <<>>, ret |-> <<>>, raised |-> FALSE]
        /\ NoServer

\* one call, made at time clock + 1: the table becomes r.db.  When the call
\* raised, ret is not a value the caller received.
Call(op, td, arg, r) ==
    /\ clock < MaxSteps
    /\ rows' = r.db
    /\ clock' = clock + 1
    /\ prev' = rows
    /\ last' = [op |-> op, td |-> td, arg |-> arg, ret |-> r.ret, raised |-> r.raised]
    /\ UNCHANGED <<keeps_lock, server_vars, threads>>

AddRecord ==
    \E record \in AddInputs :
        /\ Call("add_record", record.td_number, record,
                add_record(rows, next_id, record, clock + 1))
        /\ next_id' = next_id + 1

UpdateRecord ==
    \E td \in TdInputs, updates \in UpdateInputs :
        /\ Call("update_record", td, updates, update_record(rows, td, updates, clock + 1))
        /\ UNCHANGED next_id

DeleteRecord ==
    \E td \in TdInputs :
        /\ Call("delete_record", td, <<>>, delete_record(rows, td))
        /\ UNCHANGED next_id

FindByTd ==
    \E td \in TdInputs, persist \in BOOLEAN :
        /\ Call("find_by_td", td, persist, find_by_td(rows, td, persist, clock + 1))
        /\ UNCHANGED next_id

FindAllByTd ==
    \E td \in TdInputs, persist \in BOOLEAN :
        /\ Call("find_all_by_td", td, persist, find_all_by_td(rows, td, persist, clock + 1))
        /\ UNCHANGED next_id

GetAll ==
    \E persist \in BOOLEAN :
        /\ Call("get_all", <<>>, persist, get_all(rows, persist, clock + 1))
        /\ UNCHANGED next_id

FilterRecords(filters) ==
    \E f \in filters :
        /\ Call("filter_records", <<>>, f, filter_records(rows, f, clock + 1))
        /\ UNCHANGED next_id

AddComment ==
    \E td \in TdInputs :
        /\ Call("add_comment", td, Note, add_comment(rows, td, Note, clock + 1))
        /\ UNCHANGED next_id

BulkUpdateStatus(filters) ==
    \E f \in filters :
        /\ Call("bulk_update_status", <<>>, [filter |-> f, new_status |-> Released],
                bulk_update_status(rows, f, Released, clock + 1))
        /\ UNCHANGED next_id

FindMissingFields ==
    \E fields \in FieldLists :
        /\ Call("find_missing_fields", <<>>, fields,
                find_missing_fields(rows, fields, clock + 1))
        /\ UNCHANGED next_id

ConvexFilterRecords ==
    \E f \in AllFilters :
        /\ Call("ConvexStore.filter_records", <<>>, f, convex_filter_records(rows, f))
        /\ UNCHANGED next_id

FindDuplicateTdNumbers ==
    /\ Call("find_duplicate_td_numbers", <<>>, <<>>, find_duplicate_td_numbers(rows))
    /\ UNCHANGED next_id

GetStats ==
    /\ Call("get_stats", <<>>, <<>>, get_stats(rows, clock + 1))
    /\ UNCHANGED next_id

Next ==
    \/ AddRecord
    \/ UpdateRecord
    \/ DeleteRecord
    \/ FindByTd
    \/ FindAllByTd
    \/ GetAll
    \/ FilterRecords(FewFilters)
    \/ AddComment
    \/ BulkUpdateStatus(SomeBulkFilters)

Spec == Init /\ [][Next]_vars

\* the filter under every combination of its arguments
InitFilter ==
    \E sheet \in FilterSheets :
        /\ rows = import_from_excel(1, sheet, 0)
        /\ next_id = Len(sheet) + 1
        /\ clock = 0
        /\ keeps_lock \in BOOLEAN
        /\ prev = <<>>
        /\ last = [op |-> "init", td |-> <<>>, arg |-> <<>>, ret |-> <<>>, raised |-> FALSE]
        /\ NoServer

NextFilter ==
    \/ FilterRecords(AllFilters)
    \/ ConvexFilterRecords
    \/ UpdateRecord

SpecFilter == InitFilter /\ [][NextFilter]_vars

\* the higher-level utilities
InitTools ==
    \E sheet \in ToolSheets :
        /\ rows = import_from_excel(1, sheet, 0)
        /\ next_id = Len(sheet) + 1
        /\ clock = 0
        /\ keeps_lock \in BOOLEAN
        /\ prev = <<>>
        /\ last = [op |-> "init", td |-> <<>>, arg |-> <<>>, ret |-> <<>>, raised |-> FALSE]
        /\ NoServer

NextTools ==
    \/ UpdateRecord
    \/ AddComment
    \/ BulkUpdateStatus(BulkFilters)
    \/ FindMissingFields

SpecTools == InitTools /\ [][NextTools]_vars

\* spreadsheets in which identifiers are shared: X1 and TD001 by two rows each,
\* X1 first; TD001 by three rows; none
DuplicateSheets ==
    { <<SheetRow(X1, Iso(EndToday), Al, ClassIIa, Draft),
        SheetRow(TD001, Iso(EndToday), Al, ClassIIa, Draft),
        SheetRow(X1, Iso(EndToday), Al, ClassIII, Released),
        SheetRow(TD001, Iso(EndYesterday), Str(<<>>), ClassIII, Draft)>>,
      <<SheetRow(TD001, Iso(EndToday), Al, ClassIIa, Draft),
        SheetRow(TD001, Iso(EndToday), Al, ClassIIa, Draft),
        SheetRow(TD001, Iso(EndToday), Al, ClassIIa, Draft)>>,
      <<SheetRow(TDX, Iso(EndToday), Al, ClassIIa, Draft),
        SheetRow(TD001, Iso(EndToday), Al, ClassIIa, Draft)>> }

\* the duplicate report after creates, updates and deletes
InitDuplicates ==
    \E sheet \in DuplicateSheets :
        /\ rows = import_from_excel(1, sheet, 0)
        /\ next_id = Len(sheet) + 1
        /\ clock = 0
        /\ keeps_lock \in BOOLEAN
        /\ prev = <<>>
        /\ last = [op |-> "init", td |-> <<>>, arg |-> <<>>, ret |-> <<>>, raised |-> FALSE]
        /\ NoServer

NextDuplicates ==
    \/ AddRecord
    \/ UpdateRecord
    \/ DeleteRecord
    \/ FindDuplicateTdNumbers
    \/ GetStats

SpecDuplicates == InitDuplicates /\ [][NextDuplicates]_vars

\* the spreadsheet is read again, as it is then; the read or the conversion of
\* one of its rows may fail
ConvertFromExcel ==
    \E sheet \in Sheets :
        \E failure \in 0..(Len(sheet) + 1) :
            LET r == convert_from_excel(rows, next_id, sheet, failure, clock + 1)
            IN  /\ Call("convert_from_excel", <<>>, [sheet |-> sheet, failure |-> failure], r)
                /\ next_id' = r.next_id

\* full reloads between creates
NextReload ==
    \/ ConvertFromExcel
    \/ AddRecord

SpecReload == Init /\ [][NextReload]_vars

\* filter dicts handed to the exports
ExportFilters ==
    { <<>>,
      [writer |-> Al],
      [status |-> Draft],
      [class |-> ClassIII],
      [classification |-> ClassIII],
      [overdue_only |-> TRUE],
      [within_days |-> 1],
      [status |-> Draft, within_days |-> 0] }

ExportCsv ==
    \E f \in ExportFilters :
        /\ Call("export_csv", <<>>, f, export_csv(rows, f, clock + 1))
        /\ UNCHANGED next_id

\* the export_calendar tool hands within_days beside the filter
ExportCalendar ==
    \E f \in ExportFilters :
        /\ Call("export_calendar", <<>>, f,
                export_calendar(rows, f, Get(f, "within_days", NoDays), clock + 1))
        /\ UNCHANGED next_id

ExportExcel ==
    \E f \in ExportFilters :
        /\ Call("export_excel", <<>>, f, export_excel(rows, f, clock + 1))
        /\ UNCHANGED next_id

\* the exports over the spreadsheets of the filter
NextExport ==
    \/ ExportCsv
    \/ ExportCalendar
    \/ ExportExcel

SpecExport == InitFilter /\ [][NextExport]_vars

\* the longest sequence of calls followed when reads are repeated
MaxReads == 3

\* spreadsheets found at construction, for the repeated reads: X1 shared by two
\* rows with different period ends; one row; X1 shared by two rows with one
\* period end, after a row of another identifier
HealingSheets ==
    { <<SheetRow(X1, Iso(EndYesterday), Al, ClassIIa, Draft),
        SheetRow(X1, Iso(EndTomorrow), Al, ClassIII, Draft)>>,
      <<SheetRow(X1, Iso(EndToday), Al, ClassIIa, Draft)>>,
      <<SheetRow(TD001, Junk, Al, ClassIIa, Draft),
        SheetRow(X1, Iso(EndToday), Al, ClassIIa, Draft),
        SheetRow(X1, Iso(EndToday), Al, ClassIII, Draft)>> }

InitHealing ==
    \E sheet \in HealingSheets :
        /\ rows = import_from_excel(1, sheet, 0)
        /\ next_id = Len(sheet) + 1
        /\ clock = 0
        /\ keeps_lock \in BOOLEAN
        /\ prev = <<>>
        /\ last = [op |-> "init", td |-> <<>>, arg |-> <<>>, ret |-> <<>>, raised |-> FALSE]
        /\ NoServer

\* one call in a sequence of calls: as Call, and `before` keeps what the call
\* before it was
CallAgain(op, td, arg, r) ==
    /\ clock < MaxReads
    /\ rows' = r.db
    /\ clock' = clock + 1
    /\ prev' = rows
    /\ last' = [op |-> op, td |-> td, arg |-> arg, ret |-> r.ret, raised |-> r.raised,
                before |-> [op |-> last.op, td |-> last.td, arg |-> last.arg]]
    /\ UNCHANGED <<next_id, keeps_lock, server_vars, threads>>

\* a due date or a status handed to update_record
UpdateRecordAgain ==
    \E updates \in {[due_date |-> Iso(Today)], [status |-> Released]} :
        CallAgain("update_record", X1, updates, update_record(rows, X1, updates, clock + 1))

FindByTdAgain ==
    \E td \in {X1, TD001}, persist \in BOOLEAN :
        CallAgain("find_by_td", td, persist, find_by_td(rows, td, persist, clock + 1))

FindAllByTdAgain ==
    \E td \in {X1, TD001}, persist \in BOOLEAN :
        CallAgain("find_all_by_td", td, persist,
                  find_all_by_td(rows, td, persist, clock + 1))

GetAllAgain ==
    \E persist \in BOOLEAN :
        CallAgain("get_all", <<>>, persist, get_all(rows, persist, clock + 1))

NextHealing ==
    \/ UpdateRecordAgain
    \/ FindByTdAgain
    \/ FindAllByTdAgain
    \/ GetAllAgain

SpecHealing == InitHealing /\ [][NextHealing]_vars

----------------------------------------------------------------------------
(* The server (src/backend/server.py): the /tool dispatcher, the /ws         *)
(* subscribers and broadcast_update.  The coroutines run on one event loop:  *)
(* a coroutine runs alone from one suspending await to the next, and the     *)
(* only await that suspends is client.send_json on a websocket whose write   *)
(* buffer is full.  The store calls of the dispatcher are those of the      *)
(* PSURDatabaseStore above; the ConvexStore that get_store() hands out has   *)
(* the same methods, carried out by a backend that is not in the            *)
(* repository.                                                              *)

Requests == 1..MaxRequests

\* a websocket's number is its slot in the hash table of connected_clients:
\* `for client in connected_clients` visits the slots in ascending order
Clients == 1..MaxClients

Min(S) == CHOOSE x \in S : \A y \in S : x <= y

\* message = {"type": event_type, "data": data}; the data are told apart by the
\* request they describe
Message(event_type, request) == [type |-> event_type, request |-> request]

\* `for client in connected_clients:` from the slot after frame.pos on, in the
\* state s of the server and of the running coroutine (s.task).  The set
\* iterator raises RuntimeError (Set changed size during iteration) when the
\* set no longer has the size it had when the loop began.  The loop stops at
\* the first send that suspends (pc "send_json"), at its end after
\* difference_update (pc "returned"), or at the error (pc "RuntimeError").
RECURSIVE broadcast_loop(_)
broadcast_loop(s) ==
    LET frame == s.task.frame
        ahead == {c \in s.connected_clients : c > frame.pos}
        client == Min(ahead)
        sent == [s EXCEPT !.sockets[client].received = Append(@, frame.message),
                          !.task.frame.pos = client]
    IN  IF Cardinality(s.connected_clients) # frame.used
        THEN [s EXCEPT !.task.pc = "RuntimeError",
                       !.published[frame.call].ended = TRUE,
                       !.published[frame.call].raised = TRUE]
        ELSE IF ahead = {}
        THEN [s EXCEPT !.connected_clients = @ \ frame.disconnected,
                       !.task.pc = "returned",
                       !.published[frame.call].ended = TRUE]
        ELSE IF s.sockets[client].state = "closed"
        THEN broadcast_loop([s EXCEPT !.task.frame.pos = client,
                                      !.task.frame.disconnected = @ \cup {client},
                                      !.published[frame.call].failed = @ \cup {client}])
        ELSE IF s.sockets[client].state = "slow"
        THEN [sent EXCEPT !.task.pc = "send_json"]
        ELSE broadcast_loop(sent)

\* broadcast_update(event_type, data), up to its first suspension
broadcast_update(s, event_type) ==
    LET message == Message(event_type, s.task.request)
    IN  broadcast_loop(
            [s EXCEPT !.published = Append(@, [message |-> message,
                                               observers |-> s.connected_clients,
                                               failed |-> {},
                                               ended |-> FALSE,
                                               raised |-> FALSE]),
                      !.task.frame = [message |-> message,
                                      call |-> Len(s.published) + 1,
                                      pos |-> 0,
                                      used |-> Cardinality(s.connected_clients),
                                      disconnected |-> {}]])

\* the suspended `await client.send_json(message)` ends: it raises when the
\* connection closed meanwhile (except: disconnected.add(client)); the loop
\* goes on
resume_send(s) ==
    LET client == s.task.frame.pos
    IN  broadcast_loop(IF s.sockets[client].state = "closed"
                       THEN [s EXCEPT !.task.frame.disconnected = @ \cup {client},
                                      !.published[s.task.frame.call].failed = @ \cup {client}]
                       ELSE s)

\* tool_entry returns `result` to the caller
Return(s, result) == [s EXCEPT !.task.pc = "done", !.task.result = result]

\* an exception leaves tool_entry: the caller gets no result (HTTP 500)
Raise(s) == [s EXCEPT !.task.pc = "done", !.task.result = [raised |-> TRUE]]

Error(text) == [error |-> text]

\* after `await broadcast_update("dialog", error_entry)` in the except branch
after_error(s) ==
    IF s.task.pc = "send_json" THEN s
    ELSE IF s.task.pc = "RuntimeError" THEN Raise(s)
    ELSE Return(s, Error("Tool failed"))

\* except Exception as e: the error entry is broadcast and an error returned
except_branch(s) ==
    after_error(broadcast_update(
        [s EXCEPT !.task.stage = "error",
                  !.conversation_history =
                      Append(@, [type |-> "tool_error", role |-> "system",
                                 tool_name |-> s.task.name])],
        "dialog_error"))

\* after the `await broadcast_update(...)` of a mutation, inside the try
after_event(s) ==
    IF s.task.pc = "send_json" THEN s
    ELSE IF s.task.pc = "RuntimeError" THEN except_branch(s)
    ELSE Return(s, s.task.pending)

\* the store call returned (or raised) r: the event is broadcast when the call
\* succeeded, and `result` returned after it
after_store(s, r, found, event_type, result) ==
    LET called == [s EXCEPT !.db = r.db, !.task.store_calls = @ + 1,
                            !.task.outage = @ \/ s.backend = "down"]
    IN  IF r.raised THEN except_branch(called)
        ELSE IF ~found THEN Return(called, Error("not found"))
        ELSE after_event(broadcast_update(
                [called EXCEPT !.task.stage = "event", !.task.pending = result,
                               !.task.mutated = TRUE],
                event_type))

\* the store call returned (or raised) r, and `result` is returned: no event
after_read(s, r, result) ==
    LET called == [s EXCEPT !.db = r.db, !.task.store_calls = @ + 1,
                            !.task.outage = @ \/ s.backend = "down"]
    IN  IF r.raised THEN except_branch(called)
        ELSE Return(called, result)

\* str(args.get(key) or "").strip()
Stripped(args, key) == Strip(Get(args, key, <<>>))

\* [A-Za-z0-9_]: the characters \b does not separate
IsWord(c) == (c >= 48 /\ c <= 57) \/ (c >= 65 /\ c <= 90) \/ (c >= 97 /\ c <= 122) \/ c = 95
IsDigit(c) == c >= 48 /\ c <= 57

\* tool_normalize_id, the td_number it finds in the query (<<>> when none):
\* re.search(r'\btd\D*(\d+)\b') over the stripped, lowercased query, the
\* digits read as a number and written as TD%03d
tool_normalize_id(text) ==
    LET q == Lower(Strip(text))
        n == Len(q)
        \* the digits start at j and end at k: q[i..i+1] = "td" after a word
        \* boundary, no digit between it and j, a word boundary after k
        Match(i, j, k) ==
            /\ i + 1 < j /\ j <= k /\ k <= n
            /\ q[i] = 116 /\ q[i + 1] = 100
            /\ (i = 1 \/ ~IsWord(q[i - 1]))
            /\ \A m \in (i + 2)..(j - 1) : ~IsDigit(q[m])
            /\ \A m \in j..k : IsDigit(q[m])
            /\ (k = n \/ ~IsWord(q[k + 1]))
        matches == {m \in (1..n) \X (1..n) \X (1..n) : Match(m[1], m[2], m[3])}
        \* leftmost start; \D* and \d+ take all they can
        first == CHOOSE m \in matches : \A o \in matches :
                    \/ m[1] < o[1]
                    \/ (m[1] = o[1] /\ m[2] > o[2])
                    \/ (m[1] = o[1] /\ m[2] = o[2] /\ m[3] >= o[3])
    IN  IF matches = {} THEN <<>>
        ELSE FormatTd(ParseInt(SubSeq(q, first[2], first[3])))

\* "UNKNOWN"
UNKNOWN == <<85, 78, 75, 78, 79, 87, 78>>

\* ConvexStore: _call_query and _call_mutation catch every exception of the
\* request (connection refused, timeout, HTTP error status) and answer None,
\* which each method turns into the value below; with the deployment up the
\* call is carried out by the backend
convex_find_by_td(s, td_number) ==
    IF s.backend = "down" THEN [db |-> s.db, ret |-> <<>>, raised |-> FALSE]
    ELSE find_by_td(s.db, td_number, TRUE, s.t)

convex_add_record(s, record) ==
    IF s.backend = "down"
    THEN [db |-> s.db,
          ret |-> IF record.td_number = <<>> THEN UNKNOWN ELSE record.td_number,
          raised |-> FALSE, next_id |-> s.next_id]
    ELSE [db |-> add_record(s.db, s.next_id, record, s.t).db,
          ret |-> add_record(s.db, s.next_id, record, s.t).ret,
          raised |-> FALSE, next_id |-> s.next_id + 1]

convex_update_record(s, td_number, updates) ==
    IF s.backend = "down" THEN [db |-> s.db, ret |-> FALSE, raised |-> FALSE]
    ELSE update_record(s.db, td_number, updates, s.t)

convex_delete_record(s, td_number) ==
    IF s.backend = "down" THEN [db |-> s.db, ret |-> FALSE, raised |-> FALSE]
    ELSE delete_record(s.db, td_number)

convex_add_comment(s, td_number, comment) ==
    IF s.backend = "down" THEN [db |-> s.db, ret |-> FALSE, raised |-> FALSE]
    ELSE add_comment(s.db, td_number, comment, s.t)

convex_bulk_update_status(s, filter_criteria, new_status) ==
    IF s.backend = "down" THEN [db |-> s.db, ret |-> 0, raised |-> FALSE]
    ELSE bulk_update_status(s.db, filter_criteria, new_status, s.t)

\* datetime.date as the code uses it: a date is its proleptic Gregorian ordinal,
\* Ordinal(1, 1, 1) = 1
IsLeap(year) == year % 4 = 0 /\ (year % 100 # 0 \/ year % 400 = 0)

DaysInMonth(year, month) ==
    IF month = 2 THEN (IF IsLeap(year) THEN 29 ELSE 28)
    ELSE IF month \in {4, 6, 9, 11} THEN 30 ELSE 31

DaysBeforeYear(year) ==
    (year - 1) * 365 + (year - 1) \div 4 - (year - 1) \div 100 + (year - 1) \div 400

RECURSIVE DaysBeforeMonth(_, _)
DaysBeforeMonth(year, month) ==
    IF month = 1 THEN 0
    ELSE DaysBeforeMonth(year, month - 1) + DaysInMonth(year, month - 1)

\* date(year, month, day).toordinal()
Ordinal(year, month, day) == DaysBeforeYear(year) + DaysBeforeMonth(year, month) + day

\* date.fromordinal(n).year, .month, .day
YearOf(n) ==
    CHOOSE year \in (n \div 366)..(n \div 365 + 1) :
        year >= 1 /\ DaysBeforeYear(year) < n /\ n <= DaysBeforeYear(year + 1)
MonthOf(n) ==
    LET year == YearOf(n)
        day_of_year == n - DaysBeforeYear(year)
    IN  CHOOSE month \in 1..12 :
            /\ DaysBeforeMonth(year, month) < day_of_year
            /\ day_of_year <= DaysBeforeMonth(year, month) + DaysInMonth(year, month)
DayOf(n) ==
    LET year == YearOf(n)
    IN  n - DaysBeforeYear(year) - DaysBeforeMonth(year, MonthOf(n))

\* the year offset tool_compute_expected_due_date takes for a frequency (lowercased):
\* `1 if "annual" in freq or "year" in freq and "2" not in freq and "5" not in freq
\*  else 2 if "bienn" in freq or "ii a" in freq or "iia" in freq else 5 if "5" in freq
\*  else 1`
YearsFor(freq) ==
    IF Contains(freq, <<97, 110, 110, 117, 97, 108>>)
        \/ (Contains(freq, <<121, 101, 97, 114>>) /\ ~Contains(freq, <<50>>)
                /\ ~Contains(freq, <<53>>))
    THEN 1
    ELSE IF Contains(freq, <<98, 105, 101, 110, 110>>) \/ Contains(freq, <<105, 105, 32, 97>>)
            \/ Contains(freq, <<105, 105, 97>>)
    THEN 2
    ELSE IF Contains(freq, <<53>>) THEN 5
    ELSE 1

\* end.replace(year=end.year + years), and when that date does not exist
\* date(end.year + years, end.month, min(end.day, 28))
YearsOn(end, years) ==
    LET year == YearOf(end) + years
        month == MonthOf(end)
        day == DayOf(end)
    IN  IF day <= DaysInMonth(year, month) THEN Ordinal(year, month, day)
        ELSE Ordinal(year, month, IF day < 28 THEN day ELSE 28)

\* tool_compute_expected_due_date raises: the year or the date passes date.max
\* (ValueError from date(...), OverflowError from the addition of buffer_days)
tool_compute_expected_due_date_raises(args) ==
    LET end == Get(args, "end_period", NoneVal)
        years == YearsFor(Lower(TextOf(Get(args, "frequency", NoneVal))))
    IN  /\ Truthy(end) /\ _parse_date(end) # NoDate
        /\ \/ YearOf(_parse_date(end)) + years > YearOf(DateMax)
           \/ YearsOn(_parse_date(end), years) + Get(args, "buffer_days", 0) > DateMax

\* tool_compute_expected_due_date, when it returns
tool_compute_expected_due_date(args) ==
    LET end == Get(args, "end_period", NoneVal)
        freq == Lower(TextOf(Get(args, "frequency", NoneVal)))
        buf == Get(args, "buffer_days", 0)
    IN  IF ~Truthy(end) \/ _parse_date(end) = NoDate THEN [expected_due_date |-> NoneVal]
        ELSE [expected_due_date |-> Iso(YearsOn(_parse_date(end), YearsFor(freq)) + buf)]

\* tool_compare_due_dates: the keys read are the spreadsheet's headers
tool_compare_due_dates(row) ==
    LET comp == tool_compute_expected_due_date(
                    [end_period |-> Get(row, "End Period", NoneVal),
                     frequency |-> Get(row, "Frequency", NoneVal)])
    IN  [stored |-> Get(row, "Due Date", NoneVal), expected |-> comp.expected_due_date]

\* tool_validate_row: the keys read are the spreadsheet's headers; "iii", "iib",
\* "ann", "1", "iia", "ii a", "bienn", "2"
tool_validate_row(row) ==
    LET klass == Lower(Strip(TextOf(Get(row, "Class", NoneVal))))
        freq == Lower(Strip(TextOf(Get(row, "Frequency", NoneVal))))
        annual == /\ Contains(klass, <<105, 105, 105>>) \/ Contains(klass, <<105, 105, 98>>)
                  /\ ~Contains(freq, <<97, 110, 110>>) /\ ~Contains(freq, <<49>>)
        biennial == /\ Contains(klass, <<105, 105, 97>>) \/ Contains(klass, <<105, 105, 32, 97>>)
                    /\ ~Contains(freq, <<98, 105, 101, 110, 110>>) /\ ~Contains(freq, <<50>>)
    IN  [issues |->
            (IF annual THEN <<"Class IIb/III should be annual; frequency mismatch.">>
             ELSE <<>>)
            \o (IF biennial THEN <<"Class IIa should be biennial; frequency mismatch.">>
                ELSE <<>>)
            \o (IF ~Truthy(Get(row, "Due Date", NoneVal))
                THEN <<"Missing Due Date; compute from End Period & Frequency.">>
                ELSE <<>>)
            \o (IF ~Truthy(Get(row, "Writer", NoneVal)) THEN <<"Missing Writer/owner.">>
                ELSE <<>>)]

\* the record clone_report hands to add_record: the source without id,
\* created_at, updated_at and version, td_number replaced by new_td or
\* dropped, then the modifications
Cloned(source, new_td, modifications) ==
    LET new_record == [td_number |-> new_td,
                       end_period |-> source.end_period,
                       writer |-> source.writer,
                       class |-> source.class,
                       status |-> source.status,
                       comments |-> source.comments]
    IN  [f \in DOMAIN new_record |->
            IF f \in DOMAIN modifications THEN modifications[f] ELSE new_record[f]]

\* the body of the try, for the tools modelled; s.t is the time of the call
try_body(s) ==
    LET name == s.task.name
        args == s.task.args
        row_id == Stripped(args, "row_id")
        comment == Stripped(args, "comment")
        field_name == Get(args, "field_name", "")
        field_value == Get(args, "field_value", NoneVal)
        filter_criteria == Get(args, "filter", <<>>)
        new_status == Get(args, "new_status", NoneVal)
        commented == convex_add_comment(s, row_id, comment)
        cleared == convex_update_record(s, row_id, field_name :> Str(<<>>))
        updated == convex_update_record(s, row_id, field_name :> field_value)
        bulk == convex_bulk_update_status(s, filter_criteria, new_status)
        item == convex_find_by_td(s, row_id)
        due_date == Get(args, "due_date", NoneVal)
        due_updated == convex_update_record(s, row_id, [due_date |-> due_date])
        query == tool_normalize_id(Get(args, "query", <<>>))
        added == convex_add_record(s, [td_number |-> Get(args, "td_number", <<>>),
                                       end_period |-> Get(args, "end_period", NoneVal),
                                       writer |-> Get(args, "writer", NoneVal),
                                       class |-> Get(args, "class", NoneVal),
                                       status |-> Get(args, "status", NoneVal),
                                       comments |-> Get(args, "comments", NoneVal)])
        deleted == convex_delete_record(s, row_id)
        compared == convex_find_by_td(s, Get(args, "row_id", <<>>))
        source_td == Stripped(args, "source_td")
        source == convex_find_by_td(s, source_td)
        found == [s EXCEPT !.db = source.db, !.task.store_calls = @ + 1,
                           !.task.outage = @ \/ s.backend = "down"]
        new_record == Cloned(source.ret[1], Get(args, "new_td", <<>>),
                             Get(args, "modifications", <<>>))
        created == convex_add_record(found, new_record)
    IN  CASE name = "normalize_id" ->
                IF Stripped(args, "query") = <<>>
                THEN Return(s, Error("query required"))
                ELSE Return(s, IF query = <<>> THEN <<>> ELSE [td_number |-> query])
          [] name = "add_psur_item" ->
                after_store([s EXCEPT !.next_id = added.next_id], added, TRUE, "add",
                            [ok |-> TRUE, td_number |-> added.ret])
          [] name = "get_report" ->
                IF row_id = <<>>
                THEN Return(s, Error("row_id (TD Number) required"))
                ELSE after_read(s, item, [items |-> item.ret, count |-> Len(item.ret)])
          [] name = "validate_row" ->
                IF Get(args, "row_id", <<>>) = <<>>
                THEN Return(s, Error("row_id or psur_id required"))
                ELSE after_read(s, compared,
                                IF compared.ret = <<>> THEN Error("Record not found")
                                ELSE tool_validate_row(compared.ret[1]))
          [] name = "compare_due_dates" ->
                IF Get(args, "row_id", <<>>) = <<>>
                THEN Return(s, Error("row_id or psur_id required"))
                ELSE after_read(s, compared,
                                IF compared.ret = <<>> THEN Error("Record not found")
                                ELSE tool_compare_due_dates(compared.ret[1]))
          [] name = "update_due_date" ->
                IF row_id = <<>> \/ ~Truthy(due_date)
                THEN Return(s, Error("row_id and due_date required"))
                ELSE after_store(s, due_updated, due_updated.ret, "update", [ok |-> TRUE])
          [] name = "delete_report" ->
                IF row_id = <<>>
                THEN Return(s, Error("row_id required"))
                ELSE after_store(s, deleted, deleted.ret, "delete", [ok |-> TRUE])
          [] name = "clone_report" ->
                IF source_td = <<>>
                THEN Return(s, Error("source_td required"))
                ELSE IF source.raised THEN except_branch(found)
                ELSE IF source.ret = <<>> THEN Return(found, Error("not found"))
                ELSE after_store([found EXCEPT !.next_id = created.next_id], created,
                                 TRUE, "add", [ok |-> TRUE, td_number |-> created.ret])
          [] name = "add_comment" ->
                IF row_id = <<>> \/ comment = <<>>
                THEN Return(s, Error("row_id and comment required"))
                ELSE after_store(s, commented, commented.ret, "comment", [ok |-> TRUE])
          [] name = "clear_field" ->
                IF row_id = <<>> \/ field_name = ""
                THEN Return(s, Error("row_id and field_name required"))
                ELSE after_store(s, cleared, cleared.ret, "update", [ok |-> TRUE])
          [] name = "update_field" ->
                IF row_id = <<>> \/ field_name = ""
                THEN Return(s, Error("row_id and field_name required"))
                ELSE after_store(s, updated, updated.ret, "update", [ok |-> TRUE])
          [] name = "bulk_update_status" ->
                IF ~Truthy(new_status)
                THEN Return(s, Error("new_status required"))
                ELSE after_store(s, bulk, TRUE, "bulk_update",
                                 [ok |-> TRUE, updated_count |-> bulk.ret])
          [] OTHER -> Return(s, Error("Unknown tool"))

\* after `await broadcast_update("dialog", dialog_entry)`, before the try
after_dialog(s) ==
    IF s.task.pc = "send_json" THEN s
    ELSE IF s.task.pc = "RuntimeError" THEN Raise(s)
    ELSE try_body(s)

\* tool_entry(payload), up to its first suspension
tool_entry(s, request, payload) ==
    after_dialog(broadcast_update(
        [s EXCEPT !.conversation_history =
                      Append(@, [type |-> "tool_call", role |-> "system",
                                 tool_name |-> payload.name]),
                  !.task = [request |-> request,
                            name |-> payload.name,
                            args |-> payload.args,
                            pc |-> "start",
                            stage |-> "dialog",
                            frame |-> <<>>,
                            pending |-> <<>>,
                            result |-> <<>>,
                            store_calls |-> 0,
                            outage |-> FALSE,
                            mutated |-> FALSE]],
        "dialog"))

\* after the `await broadcast_update(...)` of a dialog endpoint: its reply
after_reply(s) ==
    IF s.task.pc = "send_json" THEN s
    ELSE IF s.task.pc = "RuntimeError" THEN Raise(s)
    ELSE Return(s, s.task.pending)

\* a request to a dialog endpoint, as it starts
DialogTask(request, name, payload, reply) ==
    [request |-> request,
     name |-> name,
     args |-> payload,
     pc |-> "start",
     stage |-> "reply",
     frame |-> <<>>,
     pending |-> reply,
     result |-> <<>>,
     store_calls |-> 0,
     outage |-> FALSE,
     mutated |-> FALSE]

\* add_dialog_entry(payload), up to its first suspension: the entry is appended,
\* the oldest entry is dropped when the history has grown past the limit, and
\* the entry is broadcast
add_dialog_entry(s, request, payload) ==
    LET entry == [type |-> Get(payload, "type", "message"),
                  role |-> Get(payload, "role", "user"),
                  tool_name |-> Get(payload, "tool_name", NoneVal)]
        appended == Append(s.conversation_history, entry)
        kept == IF Len(appended) > HistoryLimit THEN Tail(appended) ELSE appended
    IN  after_reply(broadcast_update(
            [s EXCEPT !.conversation_history = kept,
                      !.task = DialogTask(request, "/dialog/add", payload,
                                          [ok |-> TRUE, entry |-> entry])],
            "dialog"))

\* clear_dialog(), up to its first suspension
clear_dialog(s, request) ==
    after_reply(broadcast_update(
        [s EXCEPT !.conversation_history = <<>>,
                  !.task = DialogTask(request, "/dialog/clear", <<>>, [ok |-> TRUE])],
        "dialog_clear"))

\* the coroutine goes on after the send it was suspended in
tool_entry_resumed(s) ==
    LET resumed == resume_send(s)
    IN  CASE s.task.stage = "dialog" -> after_dialog(resumed)
          [] s.task.stage = "event" -> after_event(resumed)
          [] s.task.stage = "error" -> after_error(resumed)
          [] s.task.stage = "reply" -> after_reply(resumed)

\* the declared input schema of the tools (TOOLS, "required")
Required ==
    [add_comment |-> {"row_id", "comment"},
     clear_field |-> {"row_id", "field_name"},
     update_field |-> {"row_id", "field_name", "field_value"},
     bulk_update_status |-> {"filter", "new_status"},
     normalize_id |-> {"query"},
     get_report |-> {"row_id"},
     validate_row |-> {},
     compare_due_dates |-> {},
     update_due_date |-> {"row_id", "due_date"},
     add_psur_item |-> {},
     delete_report |-> {"row_id"},
     clone_report |-> {"source_td"}]

\* payloads posted to /tool; " " is a blank row_id
Payloads ==
    { [name |-> "add_comment", args |-> [row_id |-> TD001, comment |-> Note]],
      [name |-> "add_comment", args |-> [row_id |-> <<32>>, comment |-> Note]],
      [name |-> "add_comment", args |-> [row_id |-> X1]],
      [name |-> "clear_field", args |-> [row_id |-> TD001, field_name |-> "comments"]],
      [name |-> "clear_field", args |-> [field_name |-> "comments"]],
      [name |-> "update_field", args |-> [row_id |-> X1, field_name |-> "status", field_value |-> Released]],
      [name |-> "update_field", args |-> [row_id |-> X1, field_name |-> "comments"]],
      [name |-> "bulk_update_status", args |-> [filter |-> [class |-> ClassIII], new_status |-> Released]],
      [name |-> "bulk_update_status", args |-> [filter |-> [class |-> ClassIII]]],
      [name |-> "bulk_update_status", args |-> [new_status |-> Released]] }

\* "old"
Old == <<111, 108, 100>>

\* spreadsheet found at construction: two rows share TD001, with comments
\* "note" and "old"
ServerSheet ==
    <<[SheetRow(TD001, Iso(EndToday), Al, ClassIIa, Draft) EXCEPT !.comments = Str(Note)],
      [SheetRow(TD001, Iso(EndToday), Al, ClassIII, Draft) EXCEPT !.comments = Str(Old)],
      SheetRow(X1, Iso(EndToday), Al, ClassIII, Draft)>>

\* payloads posted while the subscribers come, stall and go
NotifierPayloads ==
    { [name |-> "add_comment", args |-> [row_id |-> X1, comment |-> Note]],
      [name |-> "add_comment", args |-> [row_id |-> X1]] }

\* a request not yet received
Idle == [pc |-> "idle", store_calls |-> 0]

InitServer ==
    /\ rows = import_from_excel(1, ServerSheet, 0)
    /\ next_id = Len(ServerSheet) + 1
    /\ clock = 0
    /\ keeps_lock \in BOOLEAN
    /\ prev = rows
    /\ last = [op |-> "init", td |-> <<>>, arg |-> <<>>, ret |-> <<>>, raised |-> FALSE]
    /\ connected_clients = {}
    /\ sockets = [c \in Clients |-> [state |-> "new", received |-> <<>>,
                                      handler |-> "waiting"]]
    /\ tasks = [request \in Requests |-> Idle]
    /\ published = <<>>
    /\ conversation_history = <<>>
    /\ backend = "up"
    /\ threads = <<>>

\* the server and the coroutine of `request`, as the operators above take them
Running(request) ==
    [connected_clients |-> connected_clients,
     sockets |-> sockets,
     published |-> published,
     conversation_history |-> conversation_history,
     backend |-> backend,
     db |-> rows,
     next_id |-> next_id,
     t |-> clock + 1,
     task |-> tasks[request]]

\* the coroutine ran up to s
Becomes(request, s) ==
    /\ connected_clients' = s.connected_clients
    /\ sockets' = s.sockets
    /\ published' = s.published
    /\ conversation_history' = s.conversation_history
    /\ rows' = s.db
    /\ next_id' = s.next_id
    /\ tasks' = [tasks EXCEPT ![request] = s.task]
    /\ clock' = IF s.task.store_calls > tasks[request].store_calls THEN clock + 1 ELSE clock
    /\ prev' = rows
    /\ last' = [op |-> s.task.name, td |-> <<>>, arg |-> s.task.args,
                ret |-> s.task.result, raised |-> FALSE, outage |-> s.task.outage]
    /\ UNCHANGED <<keeps_lock, backend, threads>>

\* POST /tool
ToolEntry(request, payloads) ==
    /\ tasks[request].pc = "idle"
    /\ \E payload \in payloads :
            Becomes(request, tool_entry(Running(request), request, payload))

\* the websocket a coroutine waits for can be written to again, or has closed
Resume(request) ==
    /\ tasks[request].pc = "send_json"
    /\ sockets[tasks[request].frame.pos].state # "slow"
    /\ Becomes(request, tool_entry_resumed(Running(request)))

\* websocket_endpoint: accept() and connected_clients.add(websocket)
Connect(client) ==
    /\ sockets[client].state = "new"
    /\ sockets' = [sockets EXCEPT ![client].state = "open"]
    /\ connected_clients' = connected_clients \cup {client}
    /\ UNCHANGED <<rows, next_id, clock, keeps_lock, prev, last, tasks, published,
                   conversation_history, backend, threads>>

\* the peer stops reading: the write buffer of the websocket is full
Stall(client) ==
    /\ sockets[client].state = "open"
    /\ sockets' = [sockets EXCEPT ![client].state = "slow"]
    /\ UNCHANGED <<rows, next_id, clock, keeps_lock, prev, last, tasks, published,
                   conversation_history, backend, threads, connected_clients>>

\* the peer reads again
Drain(client) ==
    /\ sockets[client].state = "slow"
    /\ sockets' = [sockets EXCEPT ![client].state = "open"]
    /\ UNCHANGED <<rows, next_id, clock, keeps_lock, prev, last, tasks, published,
                   conversation_history, backend, threads, connected_clients>>

\* the connection is lost: from now on send_json raises
Close(client) ==
    /\ sockets[client].state \in {"open", "slow"}
    /\ sockets' = [sockets EXCEPT ![client].state = "closed"]
    /\ UNCHANGED <<rows, next_id, clock, keeps_lock, prev, last, tasks, published,
                   conversation_history, backend, threads, connected_clients>>

\* websocket_endpoint: receive_text() raises WebSocketDisconnect,
\* connected_clients.remove(websocket), which raises KeyError when the
\* websocket is not in the set
Disconnect(client) ==
    /\ sockets[client].state = "closed"
    /\ sockets[client].handler = "waiting"
    /\ connected_clients' = connected_clients \ {client}
    /\ sockets' = [sockets EXCEPT ![client].handler =
                        IF client \in connected_clients THEN "returned" ELSE "KeyError"]
    /\ UNCHANGED <<rows, next_id, clock, keeps_lock, prev, last, tasks, published,
                   conversation_history, backend, threads>>

\* the dispatcher with subscribers that take every message at once
NextServer ==
    \/ \E request \in Requests : ToolEntry(request, Payloads)
    \/ \E client \in Clients : Connect(client)
    \/ \E client \in Clients : Close(client)
    \/ \E client \in Clients : Disconnect(client)

SpecServer == InitServer /\ [][NextServer]_vars

\* the notifier with subscribers that come, stall and go while requests run
NextNotifier ==
    \/ \E request \in Requests : ToolEntry(request, NotifierPayloads)
    \/ \E request \in Requests : Resume(request)
    \/ \E client \in Clients : Connect(client)
    \/ \E client \in Clients : Stall(client)
    \/ \E client \in Clients : Drain(client)
    \/ \E client \in Clients : Close(client)
    \/ \E client \in Clients : Disconnect(client)

SpecNotifier == InitServer /\ [][NextNotifier]_vars

\* "td001": TD001 as a caller may spell it
LowerTD001 == Lower(TD001)

\* payloads posted to /tool while the Convex deployment comes and goes
DispatchPayloads ==
    { [name |-> "normalize_id", args |-> [query |-> LowerTD001]],
      [name |-> "get_report", args |-> [row_id |-> TD001]],
      [name |-> "get_report", args |-> [row_id |-> LowerTD001]],
      [name |-> "compare_due_dates", args |-> [row_id |-> X1]],
      [name |-> "update_due_date", args |-> [row_id |-> X1, due_date |-> Iso(EndToday)]],
      [name |-> "update_field", args |-> [row_id |-> LowerTD001, field_name |-> "status", field_value |-> Released]],
      [name |-> "add_comment", args |-> [row_id |-> LowerTD001, comment |-> Note]],
      [name |-> "add_psur_item", args |-> [end_period |-> Iso(EndToday), writer |-> Al]],
      [name |-> "delete_report", args |-> [row_id |-> TD001]],
      [name |-> "delete_report", args |-> [row_id |-> LowerTD001]],
      [name |-> "clone_report", args |-> [source_td |-> X1]],
      [name |-> "clone_report", args |-> [source_td |-> X1, new_td |-> TDX,
                                          modifications |-> [status |-> Released]]] }

\* the request to the Convex deployment fails or times out from now on
Outage ==
    /\ backend = "up"
    /\ backend' = "down"
    /\ UNCHANGED <<rows, next_id, clock, keeps_lock, prev, last,
                   connected_clients, sockets, tasks, published,
                   conversation_history, threads>>

\* the Convex deployment answers again
Recover ==
    /\ backend = "down"
    /\ backend' = "up"
    /\ UNCHANGED <<rows, next_id, clock, keeps_lock, prev, last,
                   connected_clients, sockets, tasks, published,
                   conversation_history, threads>>

\* the dispatcher over a deployment that may be out of reach
NextDispatch ==
    \/ \E request \in Requests : ToolEntry(request, DispatchPayloads)
    \/ \E client \in Clients : Connect(client)
    \/ Outage
    \/ Recover

SpecDispatch == InitServer /\ [][NextDispatch]_vars

\* payloads posted to /tool by a caller who has rows validated: TD001 has a
\* writer and a due date, TDX is not there until it is added without either, and
\* X1 loses its writer
AdvicePayloads ==
    { [name |-> "validate_row", args |-> [row_id |-> TD001]],
      [name |-> "validate_row", args |-> [row_id |-> TDX]],
      [name |-> "validate_row", args |-> [row_id |-> X1]],
      [name |-> "validate_row", args |-> <<>>],
      [name |-> "add_psur_item", args |-> [td_number |-> TDX, class |-> ClassIII]],
      [name |-> "update_field", args |-> [row_id |-> X1, field_name |-> "writer",
                                          field_value |-> Str(<<>>)]] }

\* the dispatcher answering requests for advice
NextAdvice ==
    \/ \E request \in Requests : ToolEntry(request, AdvicePayloads)
    \/ \E client \in Clients : Connect(client)

SpecAdvice == InitServer /\ [][NextAdvice]_vars

\* period ends handed to compute_expected_due_date: none, "n/a", 2024-02-29,
\* 2020-02-29, 2023-03-31, 2023-12-31, 02/28/2024, the end whose 30-day due date is
\* today, and date.max
ExpectedEnds ==
    { NoneVal, Junk, Iso(Ordinal(2024, 2, 29)), Iso(Ordinal(2020, 2, 29)),
      Iso(Ordinal(2023, 3, 31)), Iso(Ordinal(2023, 12, 31)), Us(Ordinal(2024, 2, 28)),
      Iso(EndToday), Iso(DateMax) }

\* frequencies handed to compute_expected_due_date: none, "annual", "Annual",
\* "biennial", "Biennial", "quarterly", "yearly", "bi-yearly", "every 2 years",
\* "every 5 years", "IIa"
Frequencies ==
    { NoneVal,
      Str(<<97, 110, 110, 117, 97, 108>>),
      Str(<<65, 110, 110, 117, 97, 108>>),
      Str(<<98, 105, 101, 110, 110, 105, 97, 108>>),
      Str(<<66, 105, 101, 110, 110, 105, 97, 108>>),
      Str(<<113, 117, 97, 114, 116, 101, 114, 108, 121>>),
      Str(<<121, 101, 97, 114, 108, 121>>),
      Str(<<98, 105, 45, 121, 101, 97, 114, 108, 121>>),
      Str(<<101, 118, 101, 114, 121, 32, 50, 32, 121, 101, 97, 114, 115>>),
      Str(<<101, 118, 101, 114, 121, 32, 53, 32, 121, 101, 97, 114, 115>>),
      ClassIIa }

\* arguments of compute_expected_due_date, buffer_days left out or 30
ExpectedArgs ==
    { [end_period |-> end, frequency |-> frequency] :
        end \in ExpectedEnds, frequency \in Frequencies }
    \cup { [end_period |-> end, frequency |-> NoneVal, buffer_days |-> DUE_OFFSET_DAYS] :
            end \in ExpectedEnds }

\* the helper on its own, next to an empty table
InitExpected ==
    /\ rows = <<>>
    /\ next_id = 1
    /\ clock = 0
    /\ keeps_lock = FALSE
    /\ prev = <<>>
    /\ last = [op |-> "init", td |-> <<>>, arg |-> <<>>, ret |-> <<>>, raised |-> FALSE]
    /\ NoServer

ComputeExpectedDueDate ==
    \E args \in ExpectedArgs :
        /\ Call("compute_expected_due_date", <<>>, args,
                [db |-> rows,
                 ret |-> IF tool_compute_expected_due_date_raises(args) THEN <<>>
                         ELSE tool_compute_expected_due_date(args),
                 raised |-> tool_compute_expected_due_date_raises(args)])
        /\ UNCHANGED next_id

NextExpected == ComputeExpectedDueDate

SpecExpected == InitExpected /\ [][NextExpected]_vars

\* the tool call the dialog history is exercised with: it reaches no store
DialogPayloads ==
    { [name |-> "normalize_id", args |-> [query |-> TDX]] }

\* the bodies posted to /dialog/add
DialogEntries ==
    { <<>>,
      [type |-> "system", role |-> "assistant"] }

\* the response has been sent: the next request takes the place of this one
NextRequest(request) ==
    /\ tasks[request].pc = "done"
    /\ tasks' = [tasks EXCEPT ![request] = Idle]
    /\ UNCHANGED <<rows, next_id, clock, keeps_lock, prev, last, connected_clients,
                   sockets, published, conversation_history, backend, threads>>

\* POST /tool
DialogToolCall ==
    /\ Len(published) < MaxEvents
    /\ ToolEntry(1, DialogPayloads)

\* POST /dialog/add
DialogAdd(request) ==
    /\ tasks[request].pc = "idle"
    /\ Len(published) < MaxEvents
    /\ \E payload \in DialogEntries :
            Becomes(request, add_dialog_entry(Running(request), request, payload))

\* POST /dialog/clear
DialogClear(request) ==
    /\ tasks[request].pc = "idle"
    /\ Len(published) < MaxEvents
    /\ Becomes(request, clear_dialog(Running(request), request))

\* the requests to /tool, one after the other, and a request to a dialog
\* endpoint among them
NextDialog ==
    \/ DialogToolCall
    \/ DialogAdd(2)
    \/ DialogClear(2)
    \/ NextRequest(1)

SpecDialog == InitServer /\ [][NextDialog]_vars

----------------------------------------------------------------------------
(* Callers in threads of their own.  Every statement of the store runs in a  *)
(* connection of its own and is committed by itself (_execute, and the        *)
(* connect/execute/close of the reads): a method is a sequence of statements, *)
(* and between two of them the statements of another caller may run.          *)

Threads == 1..MaxThreads

\* the UPDATE of update_record alone: the table after it and cur.rowcount
update_statement(db, td_number, updates, t) ==
    LET allowed == DOMAIN updates \ ImmutableKeys
        Apply(r) == [f \in DOMAIN r |->
                        IF f = "updated_at" THEN t
                        ELSE IF f = "version" THEN r.version + 1
                        ELSE IF f \in allowed THEN updates[f]
                        ELSE r[f]]
    IN  [db |-> [i \in 1..Len(db) |->
                    IF db[i].td_number = td_number THEN Apply(db[i]) ELSE db[i]],
         affected |-> Len(RowsOf(db, td_number))]

\* the call returns (or raises): it joins the calls the caller has completed
Finish(db, thread, ret, raised) ==
    [db |-> db,
     thread |-> [thread EXCEPT !.pc = "idle",
                               !.log = Append(@, [op |-> thread.op, td |-> thread.td,
                                                  arg |-> thread.arg, ret |-> ret,
                                                  raised |-> raised])]]

\* what the call returns once its writes are through
Outcome(thread) == IF thread.op = "find_by_td" THEN thread.record ELSE TRUE

\* the next statement of the caller's call, run at time t
Statement(db, thread, t) ==
    LET fetched == RowsOf(db, thread.td)
        existing == TextOf(fetched[1].comments)
        combined == IF existing # <<>> THEN existing \o <<10>> \o Stamped(thread.arg, t)
                    ELSE Stamped(thread.arg, t)
        update == update_statement(db, thread.td, thread.updates, t)
    IN  CASE thread.pc = "select" ->
                \* add_comment: find_by_td(td_number, persist=False), then combined
                IF fetched = <<>> THEN Finish(db, thread, FALSE, FALSE)
                ELSE [db |-> db,
                      thread |-> [thread EXCEPT !.pc = "update",
                                                !.updates = [comments |-> Str(combined)]]]
          [] thread.pc = "update" ->
                \* update_record: the UPDATE through _execute
                IF DOMAIN thread.updates \ ImmutableKeys = {}
                THEN Finish(db, thread, FALSE, FALSE)
                ELSE IF update.affected = 0 THEN Finish(update.db, thread, FALSE, FALSE)
                ELSE [db |-> update.db, thread |-> [thread EXCEPT !.pc = "refresh_select"]]
          [] thread.pc = "refresh_select" ->
                \* find_by_td(td_number, persist=True): the SELECT and fetchone()
                IF fetched = <<>> THEN Finish(db, thread, Outcome(thread), FALSE)
                ELSE IF WritesDue(fetched[1], TRUE)
                THEN [db |-> db,
                      thread |-> [thread EXCEPT !.pc = "write_due",
                                                !.record = <<ensure_due(fetched[1])>>,
                                                !.more = Len(fetched) > 1]]
                ELSE Finish(db, [thread EXCEPT !.record = <<ensure_due(fetched[1])>>],
                            Outcome([thread EXCEPT !.record = <<ensure_due(fetched[1])>>]),
                            FALSE)
          [] thread.pc = "write_due" ->
                \* _row_to_record: _write_due with the due date computed from the
                \* row as it was fetched
                IF thread.more /\ keeps_lock THEN Finish(db, thread, <<>>, TRUE)
                ELSE Finish(_write_due(db, thread.td, thread.record[1].due_date, t),
                            thread, Outcome(thread), FALSE)

\* "more"
More == <<109, 111, 114, 101>>

\* the comment each caller appends
NoteOf == <<Note, More, Old>>

\* the calls a caller makes: the statement it starts with
RaceCalls(thread) ==
    { [op |-> "add_comment", td |-> X1, arg |-> NoteOf[thread], pc |-> "select", updates |-> <<>>],
      [op |-> "update_record", td |-> X1, arg |-> [end_period |-> Iso(EndTomorrow)],
       pc |-> "update", updates |-> [end_period |-> Iso(EndTomorrow)]],
      [op |-> "update_record", td |-> X1, arg |-> [end_period |-> Iso(EndYesterday)],
       pc |-> "update", updates |-> [end_period |-> Iso(EndYesterday)]],
      [op |-> "find_by_td", td |-> X1, arg |-> TRUE, pc |-> "refresh_select", updates |-> <<>>] }

\* one record, X1, found at construction
RaceSheet == <<SheetRow(X1, Iso(EndToday), Al, ClassIIa, Draft)>>

InitRace ==
    /\ rows = import_from_excel(1, RaceSheet, 0)
    /\ next_id = Len(RaceSheet) + 1
    /\ clock = 0
    /\ keeps_lock \in BOOLEAN
    /\ prev = rows
    /\ last = [op |-> "init", td |-> <<>>, arg |-> <<>>, ret |-> <<>>, raised |-> FALSE]
    /\ connected_clients = {}
    /\ sockets = <<>>
    /\ tasks = <<>>
    /\ published = <<>>
    /\ conversation_history = <<>>
    /\ backend = "up"
    /\ threads = [thread \in Threads |-> [pc |-> "idle", calls |-> 0, log |-> <<>>]]

\* a statement ran: the table and the caller after it
Ran(thread, r) ==
    /\ rows' = r.db
    /\ threads' = [threads EXCEPT ![thread] = r.thread]
    /\ clock' = clock + 1
    /\ prev' = rows
    /\ UNCHANGED <<next_id, keeps_lock, last, server_vars>>

\* a caller calls a method of the store: its first statement runs
Begin(thread) ==
    /\ threads[thread].pc = "idle"
    /\ threads[thread].calls < MaxCalls
    /\ \E call \in RaceCalls(thread) :
            Ran(thread, Statement(rows,
                    [pc |-> call.pc, op |-> call.op, td |-> call.td, arg |-> call.arg,
                     updates |-> call.updates, record |-> <<>>, more |-> FALSE,
                     calls |-> threads[thread].calls + 1, log |-> threads[thread].log],
                    clock + 1))

\* the next statement of a call under way runs
Continue(thread) ==
    /\ threads[thread].pc # "idle"
    /\ Ran(thread, Statement(rows, threads[thread], clock + 1))

NextRace ==
    \/ \E thread \in Threads : Begin(thread)
    \/ \E thread \in Threads : Continue(thread)

SpecRace == InitRace /\ [][NextRace]_vars

----------------------------------------------------------------------------
(* Vocabulary of the properties *)

Ids(db) == {db[i].id : i \in 1..Len(db)}
RowById(db, id) == db[CHOOSE i \in 1..Len(db) : db[i].id = id]
Carrying(db, td_number) == {db[i].id : i \in {j \in 1..Len(db) : db[j].td_number = td_number}}
FirstCarrying(db, td_number) == CHOOSE id \in Carrying(db, td_number) :
                                    \A other \in Carrying(db, td_number) : id <= other

\* the rows the last call was about: the rows carrying its identifier, the row it
\* created, or every row for the calls that walk the table
Touched ==
    IF last.op \in {"update_record", "add_comment", "find_by_td", "find_all_by_td"}
    THEN Carrying(rows, last.td)
    ELSE IF last.op = "add_record" THEN Carrying(rows, last.ret)
    ELSE IF last.op \in {"get_all", "filter_records", "bulk_update_status"} THEN Ids(rows)
    ELSE {}

\* a read that was asked not to persist is not a healing read
Healing == ~(last.op \in {"find_by_td", "find_all_by_td", "get_all"} /\ last.arg = FALSE)

DueConsistent(r) ==
    _parse_date(r.end_period) # NoDate
        => _parse_date(r.due_date) = _parse_date(r.end_period) + DUE_OFFSET_DAYS

----------------------------------------------------------------------------
(* C1 *)

\* C1: after a create, update, bulk update, append-note or healing read, every row
\* the call was about whose end_period parses as a date (each of several rows
\* sharing one identifier included) has a stored due_date of end_period + 30 days.
C1_DueDateDerived ==
    (Healing /\ ~last.raised) => \A id \in Touched : DueConsistent(RowById(rows, id))

----------------------------------------------------------------------------
(* C2 *)

Succeeded(op) == last.op = op /\ ~last.raised

\* C2: each successful update_record raises the stored version of the updated row
\* (the first row carrying the identifier) by exactly 1 and sets its updated_at to
\* the time of the call, whichever mutable fields it changes.
C2_UpdateBumpsVersionByOne ==
    (Succeeded("update_record") /\ last.ret) =>
        LET id == FirstCarrying(prev, last.td)
        IN  /\ RowById(rows, id).version = RowById(prev, id).version + 1
            /\ RowById(rows, id).updated_at = clock

----------------------------------------------------------------------------
(* C3 *)

\* C3: over any call (create, update, bulk update, append-note, healing read,
\* delete) the version of a row that exists before and after it, identified by its
\* rowid, does not decrease; rowids identify one row each, and a row created by
\* the call gets a rowid above every rowid in use, so no row's version is reset.
C3_VersionNeverDecreases ==
    /\ \A id \in Ids(rows) \cap Ids(prev) :
            RowById(rows, id).version >= RowById(prev, id).version
    /\ Cardinality(Ids(rows)) = Len(rows)
    /\ \A id \in Ids(rows) \ Ids(prev) : \A old \in Ids(prev) : id > old

\* a call after which a row that had already been written to has a higher version
C3_Witness ==
    \E id \in Ids(rows) \cap Ids(prev) :
        /\ RowById(prev, id).version > 1
        /\ RowById(rows, id).version > RowById(prev, id).version

----------------------------------------------------------------------------
(* C4 *)

\* C4: add_record with an identifier that existing rows already carry returns
\* that identifier, appends exactly one row carrying it and leaves the existing
\* rows as they were; find_all_by_td(identifier) returns exactly the rows carrying
\* the identifier, in insertion order (ascending rowid, creation time not
\* decreasing).
C4_DuplicateCreate ==
    /\ (last.op = "add_record" /\ Carrying(prev, last.ret) # {}) =>
            /\ ~last.raised
            /\ Len(rows) = Len(prev) + 1
            /\ SubSeq(rows, 1, Len(prev)) = prev
            /\ rows[Len(rows)].td_number = last.ret
            /\ rows[Len(rows)].id \notin Ids(prev)
    /\ last.op = "find_all_by_td" =>
            /\ ~last.raised
            /\ {last.ret[i].id : i \in 1..Len(last.ret)} = Carrying(prev, last.td)
            /\ Len(last.ret) = Cardinality(Carrying(prev, last.td))
            /\ \A i, j \in 1..Len(last.ret) :
                    i < j => /\ last.ret[i].id < last.ret[j].id
                             /\ last.ret[i].created_at <= last.ret[j].created_at

\* find_all_by_td returning several rows of one identifier, one of them created by
\* add_record after the others
C4_Witness ==
    /\ last.op = "find_all_by_td"
    /\ Len(last.ret) >= 2
    /\ last.ret[Len(last.ret)].created_at > last.ret[1].created_at

----------------------------------------------------------------------------
(* C5 *)

\* C5: delete_record(identifier) removes every row carrying the identifier and no
\* other row, returns TRUE exactly when it removed a row, and find_all_by_td of
\* the identifier is empty afterwards.
C5_DeleteRemovesAll ==
    last.op = "delete_record" =>
        /\ ~last.raised
        /\ Carrying(rows, last.td) = {}
        /\ Ids(rows) = Ids(prev) \ Carrying(prev, last.td)
        /\ \A id \in Ids(rows) : RowById(rows, id) = RowById(prev, id)
        /\ last.ret = (Carrying(prev, last.td) # {})
        /\ find_all_by_td(rows, last.td, TRUE, clock + 1).ret = <<>>

\* a delete that removed several rows of one identifier and kept a row of another
C5_Witness ==
    /\ last.op = "delete_record"
    /\ Cardinality(Carrying(prev, last.td)) >= 2
    /\ rows # <<>>
    /\ last.ret

----------------------------------------------------------------------------
(* C6 *)

\* C6: update_record changes the first row carrying the identifier only: every
\* other row carrying it keeps its field values, version and updated_at.
C6_UpdateFirstRowOnly ==
    (Succeeded("update_record") /\ last.ret) =>
        \A id \in Carrying(prev, last.td) \ {FirstCarrying(prev, last.td)} :
            RowById(rows, id) = RowById(prev, id)

----------------------------------------------------------------------------
(* C7 *)

ImmutableFields == {"td_number", "created_at", "updated_at", "version"}

\* C7: an update whose input holds immutable fields beside mutable ones ignores
\* the former and applies the latter: identifier and created_at are unchanged and
\* the version ends exactly 1 above its prior value.
C7_ImmutableFieldsIgnored ==
    (/\ Succeeded("update_record")
     /\ last.ret
     /\ DOMAIN last.arg \cap ImmutableFields # {}
     /\ DOMAIN last.arg \ ImmutableFields # {}) =>
        LET id == FirstCarrying(prev, last.td)
            new == RowById(rows, id)
            old == RowById(prev, id)
        IN  /\ new.td_number = old.td_number
            /\ new.created_at = old.created_at
            /\ new.version = old.version + 1
            /\ \A f \in (DOMAIN last.arg \ ImmutableFields) \ {"due_date"} :
                    new[f] = last.arg[f]

----------------------------------------------------------------------------
(* C8 *)

\* the largest numeric suffix among the identifiers "TD<digits>" of a table, 0
\* when there is none
MaxSuffix(db) ==
    LET nums == {ParseInt(SubSeq(db[i].td_number, 3, Len(db[i].td_number))) :
                    i \in {j \in 1..Len(db) : /\ Len(db[j].td_number) >= 2
                                              /\ db[j].td_number[1] = 84
                                              /\ db[j].td_number[2] = 68}} \ {-1}
    IN  IF nums = {} THEN 0 ELSE CHOOSE n \in nums : \A m \in nums : m <= n

\* C8: add_record without an identifier assigns "TD" followed by the zero-padded
\* integer max + 1, max being the largest numeric suffix among the existing
\* identifiers with that prefix (TD001 when there is none), and no existing row
\* carries the assigned identifier.
C8_AutoIdentifierUnused ==
    (last.op = "add_record" /\ last.arg.td_number = <<>>) =>
        /\ last.ret = FormatTd(MaxSuffix(prev) + 1)
        /\ Carrying(prev, last.ret) = {}

----------------------------------------------------------------------------
(* C9 *)

\* a may precede b in a list ordered by due date ascending, records without due
\* date last, ties broken by identifier ascending
InOrder(a, b) ==
    LET da == _parse_date(a.due_date)
        db == _parse_date(b.due_date)
    IN  IF da = NoDate THEN db = NoDate /\ ~StrLess(b.td_number, a.td_number)
        ELSE \/ db = NoDate
             \/ da < db
             \/ (da = db /\ ~StrLess(b.td_number, a.td_number))

\* C9: the result of filter_records is ordered by due date ascending, records
\* without due date last, ties broken by identifier ascending, whatever the filter.
C9_FilterSorted ==
    last.op = "filter_records" =>
        \A i, j \in 1..Len(last.ret) : i < j => InOrder(last.ret[i], last.ret[j])

----------------------------------------------------------------------------
(* C10 *)

\* the record satisfies every supplied criterion of the filter
Satisfies(record, f) ==
    LET due == _parse_date(record.due_date)
        Sub(criterion, value) ==
            Truthy(criterion) => Contains(Lower(TextOf(value)), Lower(TextOf(criterion)))
    IN  /\ Sub(f.writer, record.writer)
        /\ Sub(f.classification, record.class)
        /\ Sub(f.status, record.status)
        /\ f.within_days # NoDays =>
                (due # NoDate /\ Today <= due /\ due <= Today + f.within_days)
        /\ f.overdue_only => (due # NoDate /\ due < Today)

\* C10: filter_records, of either store, returns exactly the records that satisfy
\* every supplied criterion: within_days = N selects today <= due <= today + N
\* (N = 0: due today), overdue_only selects due < today, the textual criteria
\* match as case-insensitive substrings, an empty or absent one is not applied,
\* and a record without due date passes neither date criterion.
C10_FilterSelectsExactly ==
    last.op \in {"filter_records", "ConvexStore.filter_records"} =>
        {last.ret[i].id : i \in 1..Len(last.ret)}
            = {id \in Ids(prev) : Satisfies(ensure_due(RowById(prev, id)), last.arg)}

----------------------------------------------------------------------------
(* C11 *)

\* C11: a successful add_comment leaves the record's comments equal to its
\* earlier comments followed by the stamped comment, so two appends give both
\* notes in call order after any earlier ones; an update_record whose fields do
\* not include comments leaves the comments of every row as they were.
C11_NotesAppended ==
    /\ (Succeeded("add_comment") /\ last.ret) =>
            LET id == FirstCarrying(prev, last.td)
                old == TextOf(RowById(prev, id).comments)
            IN  TextOf(RowById(rows, id).comments)
                    = (IF old = <<>> THEN <<>> ELSE old \o <<10>>) \o Stamped(last.arg, clock)
    /\ (last.op = "update_record" /\ "comments" \notin DOMAIN last.arg) =>
            \A id \in Ids(rows) : RowById(rows, id).comments = RowById(prev, id).comments

\* a record whose comments are the note of the first call, then the note of the
\* second call
C11_Witness ==
    /\ Succeeded("add_comment") /\ last.ret
    /\ TextOf(RowById(rows, FirstCarrying(prev, last.td)).comments)
            = Stamped(Note, 1) \o <<10>> \o Stamped(Note, 2)

----------------------------------------------------------------------------
(* C12 *)

\* C12: the notes are append-only under the dispatcher's operations: the notes
\* of every row that is still in the table contain what they contained before
\* the operation.
C12_NotesAppendOnly ==
    \A id \in Ids(prev) \cap Ids(rows) :
        Contains(TextOf(RowById(rows, id).comments), TextOf(RowById(prev, id).comments))

----------------------------------------------------------------------------
(* C13, C14 *)

\* the criteria of a bulk update's filter dict; the classification criterion is
\* taken under either of its names
CriteriaOf(filters) ==
    Filter(Get(filters, "writer", NoneVal),
           Get(filters, "classification", Get(filters, "class", NoneVal)),
           Get(filters, "status", NoneVal),
           Get(filters, "within_days", NoDays),
           Get(filters, "overdue_only", FALSE))

\* the rows the filter of the last bulk update matched
Matched ==
    {id \in Ids(prev) : Satisfies(ensure_due(RowById(prev, id)), CriteriaOf(last.arg.filter))}

\* C13: a bulk update does not raise when the update of one matched record
\* fails: every matched record whose own update does not fail is updated.
C13_BulkPartialFailure ==
    last.op = "bulk_update_status" =>
        /\ ~last.raised
        /\ \A id \in Matched :
                \/ RowById(rows, id).status = last.arg.new_status
                \/ update_record(rows, RowById(rows, id).td_number,
                                 [status |-> last.arg.new_status], clock + 1).raised

\* C14: bulk_update_status(filter, new_status) returns the number of records the
\* filter matched, and afterwards each of them has status = new_status.
C14_BulkUpdateStatus ==
    Succeeded("bulk_update_status") =>
        /\ last.ret = Cardinality(Matched)
        /\ \A id \in Matched : RowById(rows, id).status = last.arg.new_status

----------------------------------------------------------------------------
(* C15 *)

\* the field is absent from the record, or blank after trimming
BlankIn(record, field) ==
    \/ field \notin DOMAIN record
    \/ /\ field \notin IntegerFields \cup {"created_at", "updated_at", "td_number"}
       /\ Strip(TextOf(record[field])) = <<>>
    \/ field = "td_number" /\ Strip(record[field]) = <<>>

\* C15: find_missing_fields(fields) returns exactly the records in which one of
\* the fields is absent or blank after trimming, each with exactly the list of
\* its missing fields.
C15_FindMissingFields ==
    last.op = "find_missing_fields" =>
        /\ ~last.raised
        /\ {last.ret[i].record.id : i \in 1..Len(last.ret)}
                = {id \in Ids(prev) :
                      \E j \in 1..Len(last.arg) : BlankIn(RowById(prev, id), last.arg[j])}
        /\ \A i \in 1..Len(last.ret) :
                last.ret[i].missing_fields
                    = SelectSeq(last.arg, LAMBDA field : BlankIn(last.ret[i].record, field))

----------------------------------------------------------------------------
(* C16 *)

\* the requests that have returned after their store call changed the table
Mutated == {request \in Requests : tasks[request].pc = "done" /\ tasks[request].mutated}

\* the broadcasts of the mutation made by `request`
EventsOf(request) ==
    {i \in 1..Len(published) :
        /\ published[i].message.request = request
        /\ published[i].message.type \notin {"dialog", "dialog_error"}}

Received(client, message) ==
    \E k \in 1..Len(sockets[client].received) : sockets[client].received[k] = message

\* C16: once an operation that changed the store has returned, the event of that
\* mutation has been published and sent to every websocket that was subscribed
\* when it was published and whose connection is still up.
C16_MutationPublished ==
    \A request \in Mutated :
        /\ EventsOf(request) # {}
        /\ \A i \in EventsOf(request) :
            \A client \in published[i].observers :
                sockets[client].state \in {"open", "slow"}
                    => Received(client, published[i].message)

----------------------------------------------------------------------------
(* C17 *)

\* C17: no request waits for a delivery to an observer, and a request whose
\* store call changed the table returns the result of the operation whatever
\* became of the deliveries.
C17_NeverStalled ==
    \A request \in Requests :
        /\ tasks[request].pc # "send_json"
        /\ request \in Mutated => tasks[request].result = tasks[request].pending

----------------------------------------------------------------------------
(* C18 *)

\* C18: when a broadcast in which a delivery raised has ended, the websockets
\* whose delivery raised are out of connected_clients, and every other
\* websocket that was subscribed and is still connected has been sent the
\* message.
C18_FailedObserverDropped ==
    \A i \in 1..Len(published) :
        (published[i].ended /\ published[i].failed # {}) =>
            /\ published[i].failed \cap connected_clients = {}
            /\ \A client \in published[i].observers \ published[i].failed :
                    sockets[client].state \in {"open", "slow"}
                        => Received(client, published[i].message)

----------------------------------------------------------------------------
(* C19 *)

\* the place of a message in the order of publication
PublishedAt(message) == CHOOSE i \in 1..Len(published) : published[i].message = message

\* C19: every websocket was sent its messages in the order they were published.
C19_DeliveredInPublishOrder ==
    \A client \in Clients :
        \A k, l \in 1..Len(sockets[client].received) :
            k < l => PublishedAt(sockets[client].received[k])
                        < PublishedAt(sockets[client].received[l])

----------------------------------------------------------------------------
(* C20 *)

\* an input the tool's schema requires is absent from the payload, or blank
MissingInput(name, args) ==
    \E key \in Required[name] :
        \/ key \notin DOMAIN args
        \/ key \in {"row_id", "comment"} /\ Strip(args[key]) = <<>>

\* C20: a request that lacks a required input returns an error without a call
\* of the store and without a mutation event.
C20_ValidationBeforeStore ==
    \A request \in Requests :
        (tasks[request].pc = "done" /\ MissingInput(tasks[request].name, tasks[request].args)) =>
            /\ "error" \in DOMAIN tasks[request].result
            /\ tasks[request].store_calls = 0
            /\ EventsOf(request) = {}


----------------------------------------------------------------------------
(* C21 *)

\* the requests the dispatcher has answered
Responded == {request \in Requests : tasks[request].pc = "done"}

IsOk(result) == "ok" \in DOMAIN result /\ result.ok = TRUE
IsError(result) == DOMAIN result = {"error"}

\* C21: every response of the dispatcher, whatever the operation and its
\* arguments, is either {ok: true, ...payload} or {error: message}.
C21_OkOrError ==
    \A request \in Responded :
        IsOk(tasks[request].result) \/ IsError(tasks[request].result)


----------------------------------------------------------------------------
(* C22 *)

\* the identifier the last request named, as the shared normalization step
\* spells it
Spelled == tool_normalize_id(Get(last.arg, "row_id", <<>>))

\* C22: get_report, update, delete and add-comment normalize the identifier
\* they are given before they call the store: a request whose store calls
\* the backend answered, naming in any spelling an identifier that rows carry,
\* reaches those rows (get_report returns the first of them, the others succeed).
C22_SpellingsResolve ==
    (/\ last.op \in {"get_report", "update_field", "delete_report", "add_comment"}
     /\ ~last.outage
     /\ Carrying(prev, Spelled) # {})
        => IF last.op = "get_report"
           THEN /\ "count" \in DOMAIN last.ret
                /\ last.ret.count = 1
                /\ last.ret.items[1].id = FirstCarrying(prev, Spelled)
           ELSE IsOk(last.ret)


----------------------------------------------------------------------------
(* C23 *)

\* the last request was a clone_report that found its source and was answered
\* by the backend
Cloning ==
    /\ last.op = "clone_report"
    /\ ~last.outage
    /\ IsOk(last.ret)

CloneSource == RowById(prev, FirstCarrying(prev, Strip(last.arg.source_td)))
CloneOverrides == Get(last.arg, "modifications", <<>>)
CloneRows == Ids(rows) \ Ids(prev)
CloneRow == RowById(rows, CHOOSE id \in CloneRows : TRUE)

\* the clone carries the source's value of a field unless the caller overrode it
Carried(field) ==
    CloneRow[field] = IF field \in DOMAIN CloneOverrides THEN CloneOverrides[field]
                      ELSE CloneSource[field]

\* the clone with every property but the freshness of its identifier
CloneMade ==
    /\ Len(rows) = Len(prev) + 1
    /\ Cardinality(CloneRows) = 1
    /\ \A id \in Ids(prev) : id \in Ids(rows) /\ RowById(rows, id) = RowById(prev, id)
    /\ \A field \in {"end_period", "writer", "class", "status", "comments"} : Carried(field)
    /\ CloneRow.version = 1
    /\ CloneRow.created_at = clock
    /\ CloneRow.updated_at = clock
    /\ CloneRow.td_number = last.ret.td_number
    /\ "new_td" \in DOMAIN last.arg => CloneRow.td_number = last.arg.new_td

\* C23: clone_report on an existing source creates exactly one row through the
\* creation path: it carries the source's mutable fields with the caller's
\* overrides, has version 1 and the timestamps of the call, gets new_td or else
\* an identifier no row carried before, and leaves every earlier row, the source
\* included, unchanged.
C23_CloneReport ==
    Cloning =>
        /\ CloneMade
        /\ "new_td" \notin DOMAIN last.arg => Carrying(prev, CloneRow.td_number) = {}


----------------------------------------------------------------------------
(* C24 *)

\* the last request was a compare_due_dates, answered by the backend, for an
\* identifier that rows carry
Comparing ==
    /\ last.op = "compare_due_dates"
    /\ ~last.outage
    /\ Carrying(prev, last.arg.row_id) # {}

Compared == RowById(prev, FirstCarrying(prev, last.arg.row_id))

\* C24: compare_due_dates returns the stored due date of the record and the
\* expected due date freshly computed from its end_period, and changes no row.
C24_CompareDueDates ==
    Comparing =>
        /\ rows = prev
        /\ DOMAIN last.ret = {"stored", "expected"}
        /\ last.ret.stored = Compared.due_date
        /\ last.ret.expected =
                tool_compute_expected_due_date(
                    [end_period |-> Compared.end_period]).expected_due_date


----------------------------------------------------------------------------
(* C25 *)

\* the answers that report a missing record
NotFound == {Error("not found"), Error("Record not found")}

\* C25: a request one of whose store calls failed or timed out at the backend is
\* answered with an error that is not the one of a missing record: never with
\* an empty result, a missing record or {ok: true}.
C25_BackendFailureSurfaces ==
    \A request \in Responded :
        tasks[request].outage =>
            /\ IsError(tasks[request].result)
            /\ tasks[request].result \notin NotFound


----------------------------------------------------------------------------
(* C26 *)

\* the identifiers carried by two rows or more
Shared(db) == {db[i].td_number : i \in {j \in 1..Len(db) : Cardinality(Carrying(db, db[j].td_number)) >= 2}}

\* a list holding exactly the shared identifiers, each once, in ascending order
ListsShared(list) ==
    /\ {list[i] : i \in 1..Len(list)} = Shared(rows)
    /\ \A i, j \in 1..Len(list) : i < j => StrLess(list[i], list[j])

\* C26: after any sequence of creates, updates and deletes,
\* find_duplicate_td_numbers, and the duplicate list of get_stats, return exactly
\* the identifiers carried by two or more rows, each once, in ascending order.
C26_DuplicatesListed ==
    /\ Succeeded("find_duplicate_td_numbers") => ListsShared(last.ret)
    /\ Succeeded("get_stats") => ListsShared(last.ret.duplicate_td_numbers)

\* two identifiers are shared, and the first rows of the greater come first
C26_Witness ==
    /\ Succeeded("find_duplicate_td_numbers")
    /\ clock = MaxSteps
    /\ Len(last.ret) = 2
    /\ FirstCarrying(rows, last.ret[2]) < FirstCarrying(rows, last.ret[1])


----------------------------------------------------------------------------
(* C27 *)

\* the last request was an update_due_date that published its event
DueDatePublished ==
    /\ last.op = "update_due_date"
    /\ IsOk(last.ret)

\* C27: a mutation event is published only for a request whose store mutation
\* took effect, none when the store call failed at the backend or matched no
\* row, and the due date an update event announces is the due date stored
\* after the operation.
C27_EventsTellTheStore ==
    /\ \A request \in Responded :
            EventsOf(request) # {}
                => ~tasks[request].outage /\ IsOk(tasks[request].result)
    /\ DueDatePublished
            => \A id \in Carrying(rows, Strip(last.arg.row_id)) :
                    RowById(rows, id).due_date = last.arg.due_date


----------------------------------------------------------------------------
(* C28 *)

\* C28: the subscriber set tolerates adds and removes while it is iterated: no
\* broadcast raises when an observer connects or disconnects while it is
\* suspended, and no disconnect raises because a broadcast had already dropped
\* the observer.
C28_SubscribersTolerated ==
    /\ \A i \in 1..Len(published) : ~published[i].raised
    /\ \A client \in Clients : sockets[client].handler # "KeyError"


----------------------------------------------------------------------------
(* C29 *)

\* no call is under way
Quiet == \A thread \in Threads : threads[thread].pc = "idle"

\* the notes appended by calls that returned True
NotesAdded ==
    UNION { {threads[thread].log[i].arg :
                i \in {j \in 1..Len(threads[thread].log) :
                            /\ threads[thread].log[j].op = "add_comment"
                            /\ threads[thread].log[j].ret = TRUE
                            /\ ~threads[thread].log[j].raised}} :
            thread \in Threads }

\* C29: mutations of one record are atomic with respect to each other: when
\* callers append notes to the same record concurrently, the stored notes
\* contain every note whose call succeeded.
C29_NotesBothKept ==
    Quiet => \A note \in NotesAdded :
                \A id \in Carrying(rows, X1) : Contains(TextOf(RowById(rows, id).comments), note)

----------------------------------------------------------------------------
(* C30 *)

\* C30: a healing read (a find_by_td, or the read that ends an update) racing
\* with an update of end_period on the same row is benign: once the calls have
\* completed, the stored due_date is the stored end_period plus 30 days,
\* whichever write landed last.
C30_HealingRaceBenign ==
    Quiet => \A id \in Carrying(rows, X1) : DueConsistent(RowById(rows, id))

----------------------------------------------------------------------------
(* C31 *)

\* a read that heals: find_by_td, find_all_by_td or get_all with persist
HealingRead(call) ==
    call.op \in {"find_by_td", "find_all_by_td", "get_all"} /\ call.arg = TRUE

\* the last two calls were the same healing read of the same identifier
ReadTwice ==
    /\ HealingRead(last)
    /\ HealingRead(last.before)
    /\ last.before.op = last.op
    /\ last.before.td = last.td

\* C31: when a healing read (find_by_td, find_all_by_td, get_all) is repeated for
\* the same identifier with no mutation in between, the second read writes nothing:
\* version, updated_at and due_date of every row are after the second read what
\* they were after the first, also when several rows with different period ends
\* share the identifier.
C31_HealingFixpoint ==
    ReadTwice =>
        /\ Ids(rows) = Ids(prev)
        /\ \A id \in Ids(rows) :
              /\ RowById(rows, id).version = RowById(prev, id).version
              /\ RowById(rows, id).updated_at = RowById(prev, id).updated_at
              /\ RowById(rows, id).due_date = RowById(prev, id).due_date

----------------------------------------------------------------------------
(* C32 *)

\* the records the last read returned
Returned == {last.ret[i] : i \in 1..Len(last.ret)}

\* C32: after a healing read, a row the read returned whose end_period is absent
\* or does not parse has no due date, in the returned record and in the table
\* alike, even if a due date was stored for it before the read.
C32_NoPeriodNoDueDate ==
    (HealingRead(last) /\ ~last.raised) =>
        \A record \in Returned :
            _parse_date(record.end_period) = NoDate =>
                /\ ~Truthy(record.due_date)
                /\ ~Truthy(RowById(rows, record.id).due_date)
----------------------------------------------------------------------------
(* C33 *)

\* the rows the filter of the last bulk update did not match although a matched
\* row carries their identifier
Bystanders ==
    {id \in Ids(prev) \ Matched :
        \E other \in Matched : RowById(prev, other).td_number = RowById(prev, id).td_number}

\* C33: a bulk update changes only the rows its filter matched: a row that shares
\* its identifier with a matched row without satisfying the filter itself keeps
\* its field values and its version.
C33_BulkLeavesBystanders ==
    Succeeded("bulk_update_status") =>
        \A id \in Bystanders :
            /\ id \in Ids(rows)
            /\ \A field \in {"td_number", "writer", "end_period", "status", "class",
                             "comments", "version"} :
                    RowById(rows, id)[field] = RowById(prev, id)[field]
----------------------------------------------------------------------------
(* C34 *)

\* C34: update_record returns true exactly when at least one row carries the
\* identifier, whatever fields are supplied: an update of an existing identifier
\* that supplies immutable fields only is not answered as if the identifier were
\* not found.
C34_UpdateReturnsFound ==
    Succeeded("update_record") => (last.ret <=> Carrying(prev, last.td) # {})
----------------------------------------------------------------------------
(* C35 *)

\* the last request was a validate_row, answered by the backend, for an
\* identifier that rows carry
Validating ==
    /\ last.op = "validate_row"
    /\ ~last.outage
    /\ "row_id" \in DOMAIN last.arg
    /\ Carrying(prev, last.arg.row_id) # {}

\* the stored record validate_row was given
Validated == ensure_due(RowById(prev, FirstCarrying(prev, last.arg.row_id)))

\* the issues validate_row reported
Issues == {last.ret.issues[i] : i \in 1..Len(last.ret.issues)}

\* the policy table: IIb and III are annual, IIa is biennial; "iib", "iii", "iia"
Annual(class) ==
    Contains(Lower(TextOf(class)), <<105, 105, 98>>)
        \/ Contains(Lower(TextOf(class)), <<105, 105, 105>>)
Biennial(class) == Contains(Lower(TextOf(class)), <<105, 105, 97>>)

\* the cadence carries a token for one year / for two years: "ann", "1", "bienn", "2"
AnnualToken(cadence) ==
    Contains(Lower(TextOf(cadence)), <<97, 110, 110>>)
        \/ Contains(Lower(TextOf(cadence)), <<49>>)
BiennialToken(cadence) ==
    Contains(Lower(TextOf(cadence)), <<98, 105, 101, 110, 110>>)
        \/ Contains(Lower(TextOf(cadence)), <<50>>)

\* C35: validate_row on a stored record reports a missing due date exactly when
\* the record has no due date, a missing writer exactly when it has no writer,
\* and a cadence mismatch exactly when its class maps to annual (IIb, III) or to
\* biennial (IIa) and its cadence carries no matching token.
C35_ValidateRow ==
    Validating =>
        /\ DOMAIN last.ret = {"issues"}
        /\ "Missing Due Date; compute from End Period & Frequency." \in Issues
                <=> ~Truthy(Validated.due_date)
        /\ "Missing Writer/owner." \in Issues <=> ~Truthy(Validated.writer)
        /\ "Class IIb/III should be annual; frequency mismatch." \in Issues
                <=> (Annual(Validated.class)
                        /\ ~AnnualToken(Get(Validated, "frequency", NoneVal)))
        /\ "Class IIa should be biennial; frequency mismatch." \in Issues
                <=> (Biennial(Validated.class)
                        /\ ~BiennialToken(Get(Validated, "frequency", NoneVal)))
----------------------------------------------------------------------------
(* C36 *)

\* the last call computed an expected due date from a period end that parses,
\* with no buffer days
Expecting ==
    /\ Succeeded("compute_expected_due_date")
    /\ _parse_date(last.arg.end_period) # NoDate
    /\ ~("buffer_days" \in DOMAIN last.arg)

\* the cadence table: a biennial cadence is two years, an annual cadence and a
\* cadence the table does not recognize are one year
TableYears(cadence) == IF BiennialToken(cadence) /\ ~AnnualToken(cadence) THEN 2 ELSE 1

\* C36: compute_expected_due_date adds to the period end a whole number of years
\* taken from the cadence table (+1 for an annual cadence, +2 for a biennial one,
\* +1 for every cadence the table does not recognize): the same month and day of
\* the later year, the day clamped to 28 when that year lacks it (Feb 29).
C36_ExpectedDueDate ==
    Expecting =>
        LET end == _parse_date(last.arg.end_period)
            expected == _parse_date(last.ret.expected_due_date)
        IN  /\ expected # NoDate
            /\ YearOf(expected) = YearOf(end) + TableYears(last.arg.frequency)
            /\ MonthOf(expected) = MonthOf(end)
            /\ DayOf(expected) =
                    IF DayOf(end) <= DaysInMonth(YearOf(expected), MonthOf(end))
                    THEN DayOf(end) ELSE 28
----------------------------------------------------------------------------
(* C37 *)

\* the last call was an export that wrote its file
Exported ==
    last.op \in {"export_csv", "export_calendar", "export_excel"} /\ ~last.raised

\* what filter_records returns for the criteria of the last export
Listed == filter_records(prev, CriteriaOf(last.arg), clock).ret

\* C37: every export path (export_csv, export_calendar, export_excel) emits
\* exactly the records, in the same order, that filter_records returns for the
\* same criteria, overdue_only and within_days included.
C37_ExportsAsFilter ==
    Exported => last.ret.records = Listed
----------------------------------------------------------------------------
(* C38 *)

\* the last call was a full reload
Reloaded == last.op = "convert_from_excel"

\* the table holds exactly one row per row of the source, in order, and none of
\* the rows it held before
HoldsTheSource ==
    /\ Len(rows) = Len(last.arg.sheet)
    /\ \A i \in 1..Len(rows) :
            /\ rows[i].td_number = last.arg.sheet[i].td_number
            /\ rows[i].end_period = last.arg.sheet[i].end_period
            /\ rows[i].writer = last.arg.sheet[i].writer
            /\ rows[i].class = last.arg.sheet[i].class
            /\ rows[i].status = last.arg.sheet[i].status
            /\ rows[i].version = 1
    /\ Ids(rows) \cap Ids(prev) = {}
    /\ Cardinality(Ids(rows)) = Len(rows)

----------------------------------------------------------------------------
(* C39: the dialog history never holds more than 100 entries *)

\* C39: after any sequence of /dialog/add calls, tool calls and /dialog/clear
\* calls, conversation_history holds at most 100 entries
C39_HistoryBounded == Len(conversation_history) <= HistoryLimit

====
